---- MODULE Spec2Model ----
(***************************************************************************)
(* WebQualityAnalyzer: the content script's rule engine                    *)
(* (src/content/content.ts, kept as src/unnamed/part_002).                 *)
(*                                                                         *)
(* A document is the sequence of its elements in document order plus its   *)
(* title; querySelectorAll is a selection from that sequence.  Strings the *)
(* code scans (trim, length, the CSS selector it builds from an id) are    *)
(* sequences of one-character strings; the analyzers are operators over a  *)
(* document, computed step by step as the code computes them.              *)
(***************************************************************************)
EXTENDS Integers, Sequences, FiniteSets, TLC

VARIABLES
    doc,            \* the page: [title, elements]
    hostname,       \* window.location.hostname
    clock,          \* the instant new Date() reads
    accessibility,  \* outcome of the last analyzeAccessibility() call
    seo,            \* outcome of the last analyzeSEO() call
    performance,    \* outcome of the last analyzePerformance() call
    analysis,       \* outcome of the last performQualityAnalysis() call
    previous,       \* outcome of the performQualityAnalysis() call before it
    heard,          \* the last request the listener got, and its sendResponse calls
    popup,          \* the popup: its buttons, its panels, currentAnalysis
    runs,           \* the runAnalysis invocations: where each one is, what it saw
    sent            \* the chrome.tabs.sendMessage calls, in order

popupVars == <<popup, runs, sent>>
vars == <<doc, hostname, clock, accessibility, seo, performance, analysis,
          previous, heard, popup, runs, sent>>

----
(* Strings *)

\* The JavaScript null, distinct from every string (a string's entries are
\* single characters).
Null == <<"null">>

\* JavaScript truthiness of a string-or-null value: null and "" are falsy.
Truthy(v) == v # Null /\ v # <<>>

\* Nbsp stands for U+00A0: white space to trim(), kept by document.title.
Nbsp == "NBSP"
IsWhiteSpace(c) == c \in {" ", "\t", Nbsp}

\* String.prototype.trim
RECURSIVE TrimStart(_)
TrimStart(s) ==
    IF s # <<>> /\ IsWhiteSpace(Head(s)) THEN TrimStart(Tail(s)) ELSE s

RECURSIVE TrimEnd(_)
TrimEnd(s) ==
    IF s # <<>> /\ IsWhiteSpace(s[Len(s)])
    THEN TrimEnd(SubSeq(s, 1, Len(s) - 1))
    ELSE s

Trim(s) == TrimEnd(TrimStart(s))

\* String.prototype.includes, and the prefix test of a [attr^="..."] selector
Includes(s, sub) ==
    \E i \in 0..(Len(s) - Len(sub)) : SubSeq(s, i + 1, i + Len(sub)) = sub

StartsWith(s, pre) == Len(s) >= Len(pre) /\ SubSeq(s, 1, Len(pre)) = pre

\* n copies of x
Repeat(x, n) == [i \in 1..n |-> x]

Min(a, b) == IF a < b THEN a ELSE b
Max(a, b) == IF a > b THEN a ELSE b

----
(* The DOM *)

\* An element is [tag, attrs] (img elements also carry naturalWidth and
\* naturalHeight); attrs maps the names of the attributes present to values.
HasAttribute(e, name) == name \in DOMAIN e.attrs

GetAttribute(e, name) == IF HasAttribute(e, name) THEN e.attrs[name] ELSE Null

\* A reflecting IDL attribute (img.alt, img.src): "" when the attribute is absent.
Reflect(e, name) == IF HasAttribute(e, name) THEN e.attrs[name] ELSE <<>>

\* Element.tagName of an HTML element: the upper-cased tag.
TagName(e) ==
    CASE e.tag = "input"    -> "INPUT"
      [] e.tag = "textarea" -> "TEXTAREA"
      [] e.tag = "select"   -> "SELECT"
      [] e.tag = "h1" -> "H1" [] e.tag = "h2" -> "H2" [] e.tag = "h3" -> "H3"
      [] e.tag = "h4" -> "H4" [] e.tag = "h5" -> "H5" [] e.tag = "h6" -> "H6"
      [] OTHER -> e.tag

\* parseInt(h.tagName.charAt(1)) of a heading element
HeadingLevel(e) ==
    CASE TagName(e) = "H1" -> 1 [] TagName(e) = "H2" -> 2
      [] TagName(e) = "H3" -> 3 [] TagName(e) = "H4" -> 4
      [] TagName(e) = "H5" -> 5 [] TagName(e) = "H6" -> 6


AttrEquals(e, name, value) == HasAttribute(e, name) /\ e.attrs[name] = value

Chr_text     == <<"t", "e", "x", "t">>
Chr_email    == <<"e", "m", "a", "i", "l">>
Chr_password == <<"p", "a", "s", "s", "w", "o", "r", "d">>
Chr_color    == <<"c", "o", "l", "o", "r">>
Chr_http     == <<"h", "t", "t", "p">>

\* 'input[type="text"], input[type="email"], input[type="password"], textarea, select'
IsFormInput(e) ==
    \/ e.tag = "input" /\ \/ AttrEquals(e, "type", Chr_text)
                          \/ AttrEquals(e, "type", Chr_email)
                          \/ AttrEquals(e, "type", Chr_password)
    \/ e.tag = "textarea"
    \/ e.tag = "select"

IsImg(e) == e.tag = "img"
IsHeading(e) == e.tag \in {"h1", "h2", "h3", "h4", "h5", "h6"}
\* '[style*="color"]'
HasColorStyle(e) == HasAttribute(e, "style") /\ Includes(e.attrs["style"], Chr_color)
\* 'button, a, input, select, textarea'
IsInteractive(e) == e.tag \in {"button", "a", "input", "select", "textarea"}

----
(* The selector `label[for="${id}"]` *)

Quote == "\""
Backslash == "\\"

\* The template literal of content.ts line 90: the id is pasted in as it is.
LabelSelector(id) ==
    <<"l", "a", "b", "e", "l", "[", "f", "o", "r", "=", Quote>> \o id \o <<Quote, "]">>

\* The CSS string that starts after an opening quote at position i - 1:
\* a quote ends it, a backslash takes the next character literally (none of
\* the characters used here is a hex digit or a newline).  closed = FALSE
\* when the text ends inside the string.
RECURSIVE ReadCssString(_, _, _)
ReadCssString(s, i, acc) ==
    IF i > Len(s) THEN [closed |-> FALSE, value |-> acc, next |-> i]
    ELSE IF s[i] = Quote THEN [closed |-> TRUE, value |-> acc, next |-> i + 1]
    ELSE IF s[i] = Backslash /\ i + 1 <= Len(s)
         THEN ReadCssString(s, i + 2, Append(acc, s[i + 1]))
    ELSE ReadCssString(s, i + 1, Append(acc, s[i]))

\* The selector parses iff the string is closed and "]" is all that follows;
\* anything else is a SyntaxError of querySelector.
ParseLabelSelector(sel) ==
    LET str == ReadCssString(sel, 12, <<>>)
    IN  IF str.closed /\ SubSeq(sel, str.next, Len(sel)) = <<"]">>
        THEN [valid |-> TRUE, for |-> str.value]
        ELSE [valid |-> FALSE, for |-> <<>>]

SelectorThrows(id) == ~ParseLabelSelector(LabelSelector(id)).valid

\* document.querySelector(`label[for="${id}"]`) is non-null
LabelFound(d, id) ==
    LET want == ParseLabelSelector(LabelSelector(id)).for
    IN  \E i \in 1..Len(d.elements) :
            d.elements[i].tag = "label" /\ AttrEquals(d.elements[i], "for", want)

----
(* The selectors of analyzeSEO and analyzePerformance, and querySelectorAll *)

Chr_description == <<"d", "e", "s", "c", "r", "i", "p", "t", "i", "o", "n">>
Chr_canonical   == <<"c", "a", "n", "o", "n", "i", "c", "a", "l">>
Chr_ogTitle     == <<"o", "g", ":", "t", "i", "t", "l", "e">>
Chr_ogDescription ==
    <<"o", "g", ":", "d", "e", "s", "c", "r", "i", "p", "t", "i", "o", "n">>

IsMetaDescription(e) == e.tag = "meta" /\ AttrEquals(e, "name", Chr_description)
\* IsH1 with the selector of the heading walk, 'h1, h2, h3, h4, h5, h6'
IsH1AnyHeading(e) == e.tag \in {"h1", "h2", "h3", "h4", "h5", "h6"}
IsH1(e) == e.tag = "h1"
IsCanonical(e) == e.tag = "link" /\ AttrEquals(e, "rel", Chr_canonical)
IsOgTitle(e) == e.tag = "meta" /\ AttrEquals(e, "property", Chr_ogTitle)
IsOgDescription(e) == e.tag = "meta" /\ AttrEquals(e, "property", Chr_ogDescription)
\* 'script[src^="http"]', 'link[href^="http"]', 'a[href^="http"]'
AttrStartsWithHttp(e, name) == HasAttribute(e, name) /\ StartsWith(e.attrs[name], Chr_http)
IsExternalScript(e) == e.tag = "script" /\ AttrStartsWithHttp(e, "src")
IsExternalStyle(e) == e.tag = "link" /\ AttrStartsWithHttp(e, "href")
IsHttpAnchor(e) == e.tag = "a" /\ AttrStartsWithHttp(e, "href")
\* '[style]'
HasStyle(e) == HasAttribute(e, "style")

\* The selectors of the content script, and the elements each one matches
Matches(e, selector) ==
    CASE selector = "img" -> IsImg(e)
      [] selector = "input[type=text], input[type=email], input[type=password], textarea, select" -> IsFormInput(e)
      [] selector = "[style*=color]" -> HasColorStyle(e)
      [] selector = "button, a, input, select, textarea" -> IsInteractive(e)
      [] selector = "h1, h2, h3, h4, h5, h6" -> IsHeading(e)
      [] selector = "meta[name=description]" -> IsMetaDescription(e)
      [] selector = "h1" -> IsH1(e)
      [] selector = "link[rel=canonical]" -> IsCanonical(e)
      [] selector = "meta[property=og:title]" -> IsOgTitle(e)
      [] selector = "meta[property=og:description]" -> IsOgDescription(e)
      [] selector = "script[src^=http]" -> IsExternalScript(e)
      [] selector = "link[href^=http]" -> IsExternalStyle(e)
      [] selector = "[style]" -> HasStyle(e)
      [] selector = "a[href^=http]" -> IsHttpAnchor(e)

\* document.querySelectorAll: the elements a selector matches, in document order
QuerySelectorAll(d, selector) ==
    SelectSeq(d.elements, LAMBDA e : Matches(e, selector))

----
(* Results *)

\* A call's outcome: what it returned, or that it threw.
NotCalled == [status |-> "none", value |-> <<>>]
Returned(v) == [status |-> "returned", value |-> v]
Threw == [status |-> "threw", value |-> <<>>]

\* Issue.element is optional: an issue without one has no such field.
Issue(type, message, severity) ==
    [type |-> type, message |-> message, severity |-> severity]
IssueAt(type, message, severity, element) ==
    [type |-> type, message |-> message, severity |-> severity, element |-> element]

CategoryResult(score, issues, suggestions) ==
    [score |-> score, issues |-> issues, suggestions |-> suggestions]

\* A rule's contribution: the issues and suggestions it pushes, the points it takes.
NoFinding == [issues |-> <<>>, suggestions |-> <<>>, deduction |-> 0]
Finding(issue, suggestion, deduction) ==
    [issues |-> <<issue>>, suggestions |-> <<suggestion>>, deduction |-> deduction]
Advice(suggestion) == [issues |-> <<>>, suggestions |-> <<suggestion>>, deduction |-> 0]

\* Accumulate with `score += deduction` for `score -= deduction`
RECURSIVE AccumulateAdding(_, _)
AccumulateAdding(findings, acc) ==
    IF findings = <<>> THEN acc
    ELSE AccumulateAdding(Tail(findings),
            [issues |-> acc.issues \o Head(findings).issues,
             suggestions |-> acc.suggestions \o Head(findings).suggestions,
             score |-> acc.score + Head(findings).deduction])

\* The rules run in order on one issues array, one suggestions array and one score.
RECURSIVE Accumulate(_, _)
Accumulate(findings, acc) ==
    IF findings = <<>> THEN acc
    ELSE Accumulate(Tail(findings),
            [issues |-> acc.issues \o Head(findings).issues,
             suggestions |-> acc.suggestions \o Head(findings).suggestions,
             score |-> acc.score - Head(findings).deduction])

\* let score = 100; ...; return { score: Math.max(0, score), issues, suggestions }
Finish(findings) ==
    LET acc == Accumulate(findings, [issues |-> <<>>, suggestions |-> <<>>, score |-> 100])
    IN  CategoryResult(Max(0, acc.score), acc.issues, acc.suggestions)

----
(* analyzeAccessibility *)

\* LacksAlt without the trim: (img) => !img.alt
LacksAltUntrimmed(img) == ~Truthy(Reflect(img, "alt"))

\* (img) => !img.alt || img.alt.trim() === ''
LacksAlt(img) == ~Truthy(Reflect(img, "alt")) \/ Trim(Reflect(img, "alt")) = <<>>

\* imagesWithoutAlt[0]?.src || 'Unknown image'
SrcOrUnknown(imgs) ==
    IF imgs # <<>> /\ Truthy(Reflect(imgs[1], "src"))
    THEN Reflect(imgs[1], "src")
    ELSE <<"Unknown image">>

\* AltTextRule without the cap Math.min(25, ...)
AltTextRuleUncapped(d) ==
    LET images == QuerySelectorAll(d, "img")
        imagesWithoutAlt == SelectSeq(images, LacksAlt)
    IN  IF Len(imagesWithoutAlt) > 0
        THEN Finding(IssueAt("Missing Alt Text",
                             <<ToString(Len(imagesWithoutAlt)), " images missing alt text">>,
                             "high", SrcOrUnknown(imagesWithoutAlt)),
                     "Add descriptive alt text to all images for screen readers",
                     Len(imagesWithoutAlt) * 3)
        ELSE NoFinding

AltTextRule(d) ==
    LET images == QuerySelectorAll(d, "img")
        imagesWithoutAlt == SelectSeq(images, LacksAlt)
    IN  IF Len(imagesWithoutAlt) > 0
        THEN Finding(IssueAt("Missing Alt Text",
                             <<ToString(Len(imagesWithoutAlt)), " images missing alt text">>,
                             "high", SrcOrUnknown(imagesWithoutAlt)),
                     "Add descriptive alt text to all images for screen readers",
                     Min(25, Len(imagesWithoutAlt) * 3))
        ELSE NoFinding

\* The filter callback of inputsWithoutLabels:
\*   const label = id ? document.querySelector(`label[for="${id}"]`) : null;
\*   return !label && !ariaLabel;
WithoutLabel(d, input) ==
    LET id == GetAttribute(input, "id")
        ariaLabel == GetAttribute(input, "aria-label")
        label == IF Truthy(id) THEN LabelFound(d, id) ELSE FALSE
    IN  ~label /\ ~Truthy(ariaLabel)

\* The callback throws when querySelector rejects the selector built from the id.
LabelLookupThrows(d) ==
    LET inputs == QuerySelectorAll(d, "input[type=text], input[type=email], input[type=password], textarea, select")
    IN  \E i \in 1..Len(inputs) :
            /\ Truthy(GetAttribute(inputs[i], "id"))
            /\ SelectorThrows(GetAttribute(inputs[i], "id"))

FormLabelRule(d) ==
    LET inputs == QuerySelectorAll(d, "input[type=text], input[type=email], input[type=password], textarea, select")
        inputsWithoutLabels == SelectSeq(inputs, LAMBDA input : WithoutLabel(d, input))
    IN  IF Len(inputsWithoutLabels) > 0
        THEN Finding(IssueAt("Form Accessibility",
                             <<ToString(Len(inputsWithoutLabels)), " form inputs without labels">>,
                             "high", <<TagName(inputsWithoutLabels[1]), " element">>),
                     "Add labels or aria-label attributes to all form inputs",
                     Min(20, Len(inputsWithoutLabels) * 4))
        ELSE NoFinding

\* ColorContrastRule as a scoring rule
ColorContrastRuleScored(d) ==
    IF Len(QuerySelectorAll(d, "[style*=color]")) > 0
    THEN Finding(Issue("Color Contrast", <<"Inline colors found">>, "low"),
                 "Verify color contrast ratios meet WCAG guidelines (4.5:1 for normal text)",
                 5)
    ELSE NoFinding

ColorContrastRule(d) ==
    IF Len(QuerySelectorAll(d, "[style*=color]")) > 0
    THEN Advice("Verify color contrast ratios meet WCAG guidelines (4.5:1 for normal text)")
    ELSE NoFinding

FocusIndicatorRule(d) ==
    IF Len(QuerySelectorAll(d, "button, a, input, select, textarea")) > 0
    THEN Advice("Ensure all interactive elements have visible focus indicators")
    ELSE NoFinding

\* HasSkippedLevel with previousLevel starting at the first heading's level
\* instead of the level it is given
RECURSIVE HasSkippedLevelFromFirst(_, _, _)
HasSkippedLevelFromFirst(headingLevels, previousLevel, hasSkippedLevel) ==
    IF Len(headingLevels) < 2 THEN hasSkippedLevel
    ELSE HasSkippedLevelFromFirst(Tail(headingLevels), previousLevel,
                                  hasSkippedLevel \/ headingLevels[2] > headingLevels[1] + 1)

\* headingLevels.forEach(level => { if (level > previousLevel + 1) hasSkippedLevel = true;
\*                                  previousLevel = level; })
RECURSIVE HasSkippedLevel(_, _, _)
HasSkippedLevel(headingLevels, previousLevel, hasSkippedLevel) ==
    IF headingLevels = <<>> THEN hasSkippedLevel
    ELSE HasSkippedLevel(Tail(headingLevels), Head(headingLevels),
                         hasSkippedLevel \/ Head(headingLevels) > previousLevel + 1)

HeadingLevels(d) ==
    LET headings == QuerySelectorAll(d, "h1, h2, h3, h4, h5, h6")
    IN  [i \in 1..Len(headings) |-> HeadingLevel(headings[i])]

\* HeadingHierarchyRule without the guard `headings.length > 0`, a page
\* without headings counting as out of order
HeadingHierarchyRuleUnguarded(d) ==
    IF Len(HeadingLevels(d)) = 0 \/ HasSkippedLevel(HeadingLevels(d), 0, FALSE)
    THEN Finding(Issue("Heading Hierarchy", <<"Heading levels are not in proper order">>,
                       "medium"),
                 "Use heading levels in sequential order (h1, h2, h3, etc.)",
                 10)
    ELSE NoFinding

HeadingHierarchyRule(d) ==
    IF Len(HeadingLevels(d)) > 0 /\ HasSkippedLevel(HeadingLevels(d), 0, FALSE)
    THEN Finding(Issue("Heading Hierarchy", <<"Heading levels are not in proper order">>,
                       "medium"),
                 "Use heading levels in sequential order (h1, h2, h3, etc.)",
                 10)
    ELSE NoFinding

analyzeAccessibility(d) ==
    IF LabelLookupThrows(d) THEN Threw
    ELSE Returned(Finish(<<AltTextRule(d), FormLabelRule(d), ColorContrastRule(d),
                           FocusIndicatorRule(d), HeadingHierarchyRule(d)>>))

----
(* analyzeSEO *)

\* TitleRule with `title.length <= 10` for `title.length < 10`
TitleRuleShortAtTen(d) ==
    LET title == d.title
    IN  IF ~Truthy(title) \/ Trim(title) = <<>>
        THEN Finding(Issue("Page Title", <<"Page has no title">>, "high"),
                     "Add a descriptive page title (50-60 characters recommended)",
                     25)
        ELSE IF Len(title) <= 10
        THEN Finding(Issue("Page Title", <<"Page title is too short">>, "medium"),
                     "Make page title more descriptive (50-60 characters recommended)",
                     15)
        ELSE IF Len(title) > 60
        THEN Finding(Issue("Page Title", <<"Page title is too long">>, "low"),
                     "Shorten page title to 50-60 characters for better search results",
                     5)
        ELSE NoFinding

TitleRule(d) ==
    LET title == d.title
    IN  IF ~Truthy(title) \/ Trim(title) = <<>>
        THEN Finding(Issue("Page Title", <<"Page has no title">>, "high"),
                     "Add a descriptive page title (50-60 characters recommended)",
                     25)
        ELSE IF Len(title) < 10
        THEN Finding(Issue("Page Title", <<"Page title is too short">>, "medium"),
                     "Make page title more descriptive (50-60 characters recommended)",
                     15)
        ELSE IF Len(title) > 60
        THEN Finding(Issue("Page Title", <<"Page title is too long">>, "low"),
                     "Shorten page title to 50-60 characters for better search results",
                     5)
        ELSE NoFinding

\* MetaDescriptionMissing asking only whether the attribute is there
MetaDescriptionMissingByAttribute(matches) ==
    matches = <<>> \/ ~HasAttribute(matches[1], "content")

\* !metaDescription || !metaDescription.getAttribute('content'), where
\* document.querySelector('meta[name="description"]') is the first match, null if none.
MetaDescriptionMissing(matches) ==
    matches = <<>> \/ ~Truthy(GetAttribute(matches[1], "content"))

MetaDescriptionRule(d) ==
    LET matches == QuerySelectorAll(d, "meta[name=description]")
    IN  IF MetaDescriptionMissing(matches)
        THEN Finding(Issue("Meta Description", <<"Missing meta description">>, "high"),
                     "Add a meta description (150-160 characters recommended)",
                     20)
        ELSE LET content == GetAttribute(matches[1], "content")
             IN  IF Len(content) < 120
                 THEN Finding(Issue("Meta Description", <<"Meta description is too short">>,
                                    "medium"),
                              "Expand meta description to 150-160 characters",
                              10)
                 ELSE IF Len(content) > 160
                 THEN Finding(Issue("Meta Description", <<"Meta description is too long">>,
                                    "low"),
                              "Shorten meta description to 150-160 characters",
                              5)
                 ELSE NoFinding

H1Rule(d) ==
    LET h1Count == Len(QuerySelectorAll(d, "h1"))
    IN  IF h1Count = 0
        THEN Finding(Issue("H1 Heading", <<"No H1 heading found">>, "high"),
                     "Add a main H1 heading to improve SEO and accessibility",
                     20)
        ELSE IF h1Count > 1
        THEN Finding(Issue("H1 Heading",
                           <<"Multiple H1 headings found (", ToString(h1Count), ")">>,
                           "medium"),
                     "Use only one H1 heading per page",
                     15)
        ELSE NoFinding

CanonicalRule(d) ==
    IF QuerySelectorAll(d, "link[rel=canonical]") = <<>>
    THEN Advice("Consider adding a canonical URL to prevent duplicate content issues")
    ELSE NoFinding

OpenGraphRule(d) ==
    LET ogTitle == QuerySelectorAll(d, "meta[property=og:title]")
        ogDescription == QuerySelectorAll(d, "meta[property=og:description]")
    IN  IF ogTitle = <<>> \/ ogDescription = <<>>
        THEN Advice("Add Open Graph meta tags for better social media sharing")
        ELSE NoFinding

\* analyzeSEO with the H1 check before the title's
analyzeSEOH1First(d) ==
    Returned(Finish(<<H1Rule(d), TitleRule(d), MetaDescriptionRule(d),
                      CanonicalRule(d), OpenGraphRule(d)>>))

analyzeSEO(d) ==
    Returned(Finish(<<TitleRule(d), MetaDescriptionRule(d), H1Rule(d),
                      CanonicalRule(d), OpenGraphRule(d)>>))

----
(* analyzePerformance *)

\* IsLargeImage with && for ||
IsLargeImageBothWays(img) == img.naturalWidth > 1920 /\ img.naturalHeight > 1080

\* (img) => img.naturalWidth > 1920 || img.naturalHeight > 1080
IsLargeImage(img) == img.naturalWidth > 1920 \/ img.naturalHeight > 1080

LargeImagesRule(d) ==
    LET images == QuerySelectorAll(d, "img")
        largeImages == SelectSeq(images, IsLargeImage)
    IN  IF Len(largeImages) > 0
        THEN Finding(IssueAt("Image Optimization",
                             <<ToString(Len(largeImages)), " images larger than 1920x1080">>,
                             "medium", SrcOrUnknown(largeImages)),
                     "Optimize large images and use appropriate formats (WebP, AVIF)",
                     Min(20, Len(largeImages) * 3))
        ELSE NoFinding

\* LazyLoadingRule with a deduction that grows with the count, as the image rules' do
LazyLoadingRuleScaled(d) ==
    LET images == QuerySelectorAll(d, "img")
        imagesWithoutLoading ==
            SelectSeq(images, LAMBDA img : ~Truthy(GetAttribute(img, "loading")))
    IN  IF Len(imagesWithoutLoading) > 3
        THEN Finding(Issue("Lazy Loading",
                           <<ToString(Len(imagesWithoutLoading)),
                             " images without lazy loading">>,
                           "low"),
                     "Add loading=\"lazy\" to images below the fold",
                     Min(10, Len(imagesWithoutLoading) * 2))
        ELSE NoFinding

LazyLoadingRule(d) ==
    LET images == QuerySelectorAll(d, "img")
        imagesWithoutLoading ==
            SelectSeq(images, LAMBDA img : ~Truthy(GetAttribute(img, "loading")))
    IN  IF Len(imagesWithoutLoading) > 3
        THEN Finding(Issue("Lazy Loading",
                           <<ToString(Len(imagesWithoutLoading)),
                             " images without lazy loading">>,
                           "low"),
                     "Add loading=\"lazy\" to images below the fold",
                     10)
        ELSE NoFinding


\* ExternalResourcesRule with `totalExternal >= 10` for `totalExternal > 10`
ExternalResourcesRuleAtTen(d) ==
    LET externalScripts == QuerySelectorAll(d, "script[src^=http]")
        externalStyles == QuerySelectorAll(d, "link[href^=http]")
        totalExternal == Len(externalScripts) + Len(externalStyles)
    IN  IF totalExternal >= 10
        THEN Finding(Issue("External Resources",
                           <<ToString(totalExternal), " external resources detected">>,
                           "medium"),
                     "Consider bundling or reducing external resources to improve load times",
                     Min(15, (totalExternal - 10) * 2))
        ELSE NoFinding

ExternalResourcesRule(d) ==
    LET externalScripts == QuerySelectorAll(d, "script[src^=http]")
        externalStyles == QuerySelectorAll(d, "link[href^=http]")
        totalExternal == Len(externalScripts) + Len(externalStyles)
    IN  IF totalExternal > 10
        THEN Finding(Issue("External Resources",
                           <<ToString(totalExternal), " external resources detected">>,
                           "medium"),
                     "Consider bundling or reducing external resources to improve load times",
                     Min(15, (totalExternal - 10) * 2))
        ELSE NoFinding

\* InlineStylesRule with `length >= 20` for `length > 20`
InlineStylesRuleAtTwenty(d) ==
    LET elementsWithInlineStyles == QuerySelectorAll(d, "[style]")
    IN  IF Len(elementsWithInlineStyles) >= 20
        THEN Finding(Issue("Inline Styles",
                           <<ToString(Len(elementsWithInlineStyles)),
                             " elements with inline styles">>,
                           "low"),
                     "Move inline styles to CSS files for better caching",
                     5)
        ELSE NoFinding

InlineStylesRule(d) ==
    LET elementsWithInlineStyles == QuerySelectorAll(d, "[style]")
    IN  IF Len(elementsWithInlineStyles) > 20
        THEN Finding(Issue("Inline Styles",
                           <<ToString(Len(elementsWithInlineStyles)),
                             " elements with inline styles">>,
                           "low"),
                     "Move inline styles to CSS files for better caching",
                     5)
        ELSE NoFinding

\* ExternalLinksRule without the test of the hostname
ExternalLinksRuleAnyHost(d, host) ==
    LET externalLinks ==
            SelectSeq(QuerySelectorAll(d, "a[href^=http]"),
                      LAMBDA link : Truthy(GetAttribute(link, "href")))
        externalLinksWithoutRel ==
            SelectSeq(externalLinks, LAMBDA link : ~Truthy(GetAttribute(link, "rel")))
    IN  IF Len(externalLinksWithoutRel) > 0
        THEN Finding(Issue("External Links",
                           <<ToString(Len(externalLinksWithoutRel)),
                             " external links without rel attributes">>,
                           "low"),
                     "Add rel=\"noopener noreferrer\" to external links for security and performance",
                     Min(10, Len(externalLinksWithoutRel)))
        ELSE NoFinding

\* ExternalLinksRule with the first link free of charge
ExternalLinksRuleFirstFree(d, host) ==
    LET externalLinks ==
            SelectSeq(QuerySelectorAll(d, "a[href^=http]"),
                      LAMBDA link : /\ Truthy(GetAttribute(link, "href"))
                                    /\ ~Includes(GetAttribute(link, "href"), host))
        externalLinksWithoutRel ==
            SelectSeq(externalLinks, LAMBDA link : ~Truthy(GetAttribute(link, "rel")))
    IN  IF Len(externalLinksWithoutRel) > 0
        THEN Finding(Issue("External Links",
                           <<ToString(Len(externalLinksWithoutRel)),
                             " external links without rel attributes">>,
                           "low"),
                     "Add rel=\"noopener noreferrer\" to external links for security and performance",
                     Min(10, Len(externalLinksWithoutRel) - 1))
        ELSE NoFinding

ExternalLinksRule(d, host) ==
    LET externalLinks ==
            SelectSeq(QuerySelectorAll(d, "a[href^=http]"),
                      LAMBDA link : /\ Truthy(GetAttribute(link, "href"))
                                    /\ ~Includes(GetAttribute(link, "href"), host))
        externalLinksWithoutRel ==
            SelectSeq(externalLinks, LAMBDA link : ~Truthy(GetAttribute(link, "rel")))
    IN  IF Len(externalLinksWithoutRel) > 0
        THEN Finding(Issue("External Links",
                           <<ToString(Len(externalLinksWithoutRel)),
                             " external links without rel attributes">>,
                           "low"),
                     "Add rel=\"noopener noreferrer\" to external links for security and performance",
                     Min(10, Len(externalLinksWithoutRel)))
        ELSE NoFinding

\* PerformanceSuggestions with gzip before the CDN
PerformanceSuggestionsGzipFirst ==
    <<Advice("Enable gzip compression on your server"),
      Advice("Consider using a Content Delivery Network (CDN) for static assets"),
      Advice("Minify CSS and JavaScript files")>>

PerformanceSuggestions ==
    <<Advice("Consider using a Content Delivery Network (CDN) for static assets"),
      Advice("Enable gzip compression on your server"),
      Advice("Minify CSS and JavaScript files")>>

analyzePerformance(d, host) ==
    Returned(Finish(<<LargeImagesRule(d), LazyLoadingRule(d), ExternalResourcesRule(d),
                      InlineStylesRule(d), ExternalLinksRule(d, host)>>
                    \o PerformanceSuggestions))

----
(* performQualityAnalysis *)

\* MathRound with Math.floor for Math.round
MathRoundDown(num, den) == num \div den

\* Math.round(num / den) for num >= 0, den > 0: the nearest integer, a tie going up.
MathRound(num, den) == (2 * num + den) \div (2 * den)

\* window.location.href of a page served from host
LocationHref(host) == Chr_http \o <<":", "/", "/">> \o host \o <<"/">>

\* performQualityAnalysis with the time of the call in the url it reports
performQualityAnalysisStamped(d, host, now) ==
    LET a == analyzeAccessibility(d)
        s == analyzeSEO(d)
        p == analyzePerformance(d, host)
    IN  IF a.status = "threw" THEN Threw
        ELSE LET overallScore ==
                     MathRound(a.value.score + s.value.score + p.value.score, 3)
             IN  Returned([score |-> overallScore,
                           pageInfo |-> [url |-> LocationHref(host) \o <<"?", ToString(now)>>,
                                         title |-> d.title,
                                         timestamp |-> now],
                           categories |-> [accessibility |-> a.value,
                                           seo |-> s.value,
                                           performance |-> p.value]])

performQualityAnalysis(d, host, now) ==
    LET a == analyzeAccessibility(d)
        s == analyzeSEO(d)
        p == analyzePerformance(d, host)
    IN  IF a.status = "threw" THEN Threw
        ELSE LET overallScore ==
                     MathRound(a.value.score + s.value.score + p.value.score, 3)
             IN  Returned([score |-> overallScore,
                           pageInfo |-> [url |-> LocationHref(host),
                                         title |-> d.title,
                                         timestamp |-> now],
                           categories |-> [accessibility |-> a.value,
                                           seo |-> s.value,
                                           performance |-> p.value]])

----
(* The chrome.runtime.onMessage listener *)

\* What the listener did with a request: the action it got, the arguments of
\* its sendResponse calls in order, and whether it returned or threw.
NoMessage == [status |-> "none", action |-> "", sendResponse |-> <<>>]
Listened(status, action, responses) ==
    [status |-> status, action |-> action, sendResponse |-> responses]

\* onMessage with a response to every request
onMessageAnyAction(action, d, host, now) ==
    LET result == performQualityAnalysis(d, host, now)
    IN  IF result.status = "threw"
        THEN Listened("threw", action, <<>>)
        ELSE Listened("returned", action, <<result.value>>)

onMessage(action, d, host, now) ==
    IF action = "analyze"
    THEN LET result == performQualityAnalysis(d, host, now)
         IN  IF result.status = "threw"
             THEN Listened("threw", action, <<>>)
             ELSE Listened("returned", action, <<result.value>>)
    ELSE Listened("returned", action, <<>>)

\* request.action: 'analyze', another string, or undefined
RequestActions == {"analyze", "unknown-action", "undefined"}

----
(* Documents *)

MaxImages == 10
MaxInputs == 6
MaxHeadings == 3
MaxTitle == 61
MaxMeta == 161
MaxResources == 18
MaxStyled == 21
MaxAnchors == 10
MaxClock == 1

NoAttrs == <<>>
Element(tag, attrs) == [tag |-> tag, attrs |-> attrs]
\* An attribute that is present with value v, or absent when v is Null
Attr(name, v) == IF v = Null THEN NoAttrs ELSE name :> v

Img(alt, src, loading, w, h) ==
    [tag |-> "img",
     attrs |-> Attr("alt", alt) @@ Attr("src", src) @@ Attr("loading", loading),
     naturalWidth |-> w, naturalHeight |-> h]

Xs(n) == Repeat("x", n)
Chr_lazy == <<"l", "a", "z", "y">>
Url(host) == Chr_http \o <<":", "/", "/">> \o host

\* <img src="x"> as jsdom loads it, and an image no rule objects to
BareImg == Img(Null, Xs(1), Null, 0, 0)
GoodImg == Img(Xs(1), Xs(1), Chr_lazy, 1920, 1080)
HugeBareImg == Img(Null, Xs(1), Null, 1921, 1081)

AltValues == {Null, <<>>, <<" ">>, <<"\t", " ">>, Xs(1), <<" ", "x", " ">>}
SrcValues == {Null, Xs(1)}

AltImages ==
    {probe \o Repeat(BareImg, k) :
        probe \in {<<>>} \cup {<<Img(alt, src, Chr_lazy, 0, 0)>> :
                                   alt \in AltValues, src \in SrcValues},
        k \in 0..MaxImages}
FewImages == {Repeat(BareImg, k) : k \in {0, 1, MaxImages}}

\* Form controls
Control(tag, type, id, ariaLabel) ==
    Element(tag, Attr("type", type) @@ Attr("id", id) @@ Attr("aria-label", ariaLabel))
TextInput == Control("input", Chr_text, Null, Null)
Label(for) == Element("label", Attr("for", for))

IdValues == {Null, <<>>, Xs(1), <<"x", Quote>>, <<Backslash, "x">>}
AriaValues == {Null, <<>>, Xs(1)}
ForValues == <<Xs(1), <<Backslash, "x">>, <<"x", Quote>>>>
ControlKinds ==
    {Control("input", type, Null, Null) :
        type \in {Chr_text, Chr_email, Chr_password, <<"c">>, Null}}
    \cup {Control(tag, Null, Null, Null) : tag \in {"textarea", "select"}}
    \cup {Control("input", Chr_text, id, aria) : id \in IdValues, aria \in AriaValues}

\* Every choice of labels among ForValues, in that order
LabelsKept(keep) ==
    LET kept == SelectSeq([i \in 1..Len(ForValues) |-> i], LAMBDA i : i \in keep)
    IN  [j \in 1..Len(kept) |-> Label(ForValues[kept[j]])]
LabelLists == {LabelsKept(keep) : keep \in SUBSET (1..Len(ForValues))}

FormControls ==
    {labels \o probe \o Repeat(TextInput, k) :
        labels \in LabelLists,
        probe \in {<<>>} \cup {<<c>> : c \in ControlKinds},
        k \in 0..MaxInputs}
FewControls == {Repeat(TextInput, k) : k \in {0, 1, MaxInputs}}

\* Headings
HeadingTag(level) ==
    CASE level = 1 -> "h1" [] level = 2 -> "h2" [] level = 3 -> "h3"
      [] level = 4 -> "h4" [] level = 5 -> "h5" [] level = 6 -> "h6"
Headings(levels) == [i \in 1..Len(levels) |-> Element(HeadingTag(levels[i]), NoAttrs)]
LevelLists == UNION {[1..n -> 1..6] : n \in 0..MaxHeadings}
AllHeadings == {Headings(levels) : levels \in LevelLists}
FewHeadings == {Headings(levels) : levels \in {<<>>, <<1, 2>>, <<1, 3>>}}

\* Elements the advisory rules look for
Extras ==
    {<<>>,
     <<Element("div", Attr("style", Chr_color \o <<":", "x">>))>>,
     <<Element("button", NoAttrs)>>}

\* Titles, as document.title returns them
Titles ==
    {pre \o Xs(n) \o post : pre \in {<<>>, <<Nbsp>>}, post \in {<<>>, <<Nbsp>>},
                            n \in 0..MaxTitle}
    \cup {Repeat(Nbsp, n) : n \in 0..MaxTitle}
GoodTitle == Xs(10)
FewTitles == {<<>>, Xs(9), GoodTitle, Xs(MaxTitle)}

\* Elements of the head
Meta(content) == Element("meta", ("name" :> Chr_description) @@ Attr("content", content))
GoodMeta == Meta(Xs(130))
MetaLists ==
    {<<>>, <<Meta(Null), GoodMeta>>, <<GoodMeta, Meta(Null)>>}
    \cup {<<Meta(content)>> : content \in {Null} \cup {Xs(n) : n \in 0..MaxMeta}}
FewMetas == {<<>>, <<GoodMeta>>, <<Meta(Xs(MaxMeta))>>}

Canonical == Element("link", ("rel" :> Chr_canonical) @@ ("href" :> Url(Xs(1))))
OgTitle == Element("meta", ("property" :> Chr_ogTitle) @@ ("content" :> Xs(1)))
OgDescription == Element("meta", ("property" :> Chr_ogDescription) @@ ("content" :> Xs(1)))
HeadExtras == {<<>>, <<OgTitle>>, <<Canonical, OgTitle, OgDescription>>}

\* Images by size
Widths == {0, 1920, 1921}
Heights == {0, 1080, 1081}
SizedImages ==
    {probe \o Repeat(Img(Xs(1), Xs(1), loading, 1921, 1081), k) :
        probe \in {<<>>} \cup {<<Img(Xs(1), src, Chr_lazy, w, h)>> :
                                   src \in SrcValues, w \in Widths, h \in Heights},
        loading \in {Null, Chr_lazy},
        k \in 0..MaxImages}
MixedImages == {<<>>, <<GoodImg>>, Repeat(HugeBareImg, MaxImages)}

\* Images with and without a loading attribute
MaxUnloaded == 5
Chr_eager == <<"e", "a", "g", "e", "r">>
LoadingValues == {<<>>, Chr_lazy, Chr_eager}
LoadingImages ==
    {Repeat(Img(Xs(1), Xs(1), Null, 0, 0), k) \o Repeat(Img(Xs(1), Xs(1), loading, 0, 0), j) :
        k \in 0..MaxUnloaded, loading \in LoadingValues, j \in 0..MaxUnloaded}

\* Scripts, styled elements and anchors
HomeHost == <<"a">>
OtherHost == <<"o">>
Hostnames == {HomeHost, OtherHost}
Script(src) == Element("script", Attr("src", src))
Styled == Element("div", Attr("style", Xs(1)))
Anchor(href, rel) == Element("a", Attr("href", href) @@ Attr("rel", rel))
FewScripts == {Repeat(Script(Url(OtherHost)), k) : k \in {0, MaxResources}}
FewStyled == {Repeat(Styled, k) : k \in {0, MaxStyled}}
FewAnchors == {Repeat(Anchor(Url(OtherHost), Null), k) : k \in {0, MaxAnchors}}

\* Scripts and stylesheets: src and href absent, relative, relative with a name
\* that begins with http, http and ftp
Link(href) == Element("link", Attr("href", href))
HttpNamedFile == Chr_http \o <<"x">>
FtpUrl(host) == <<"f", "t", "p", ":", "/", "/">> \o host
ResourceUrls == {Null, Xs(1), HttpNamedFile, Url(OtherHost), FtpUrl(OtherHost)}
ResourceProbes ==
    {<<>>} \cup {<<Script(u)>> : u \in ResourceUrls} \cup {<<Link(u)>> : u \in ResourceUrls}
        \cup {Repeat(Script(u), MaxResources) : u \in {HttpNamedFile, FtpUrl(OtherHost)}}
ResourceLists ==
    {Repeat(Script(Url(OtherHost)), k) \o Repeat(Link(Url(OtherHost)), j) \o probe :
        k \in 0..MaxResources, j \in 0..1, probe \in ResourceProbes}

\* Elements with a style attribute, empty or not
StyledEmpty == Element("div", Attr("style", <<>>))
StyledLists ==
    {Repeat(Styled, k) \o Repeat(StyledEmpty, j) : k \in 0..MaxStyled, j \in 0..1}

\* Anchors: href absent, relative, to either host, to a longer host name, and
\* to the other host with the home host's name in the query; rel absent, empty, set
HrefValues ==
    {Null, <<"/", "a">>, Url(HomeHost), Url(OtherHost), Url(HomeHost \o <<"b">>),
     Url(OtherHost) \o <<"/", "?", "a">>}
RelValues == {Null, <<>>, Xs(1)}
AnchorLists ==
    {probe \o Repeat(Anchor(Url(OtherHost), Null), k) :
        probe \in {<<>>} \cup {<<Anchor(href, rel)>> : href \in HrefValues, rel \in RelValues},
        k \in 0..(MaxAnchors + 1)}

Document(title, head, body) == [title |-> title, elements |-> head \o body]

\* The documents each specification starts from: one kind of element in all
\* its variety, beside a few cases of the others.
IsAccessibilityDoc(d) ==
    \/ \E images \in AltImages, controls \in FewControls,
          headings \in FewHeadings, extras \in Extras :
            d = Document(GoodTitle, <<>>, images \o controls \o headings \o extras)
    \/ \E images \in FewImages, controls \in FormControls,
          headings \in FewHeadings, extras \in Extras :
            d = Document(GoodTitle, <<>>, images \o controls \o headings \o extras)
    \/ \E images \in FewImages, controls \in FewControls,
          headings \in AllHeadings, extras \in Extras :
            d = Document(GoodTitle, <<>>, images \o controls \o headings \o extras)

IsSeoDoc(d) ==
    \/ \E title \in Titles, metas \in FewMetas,
          headings \in FewHeadings, extras \in HeadExtras :
            d = Document(title, metas \o extras, headings)
    \/ \E title \in FewTitles, metas \in MetaLists,
          headings \in FewHeadings, extras \in HeadExtras :
            d = Document(title, metas \o extras, headings)
    \/ \E title \in FewTitles, metas \in FewMetas,
          headings \in AllHeadings, extras \in HeadExtras :
            d = Document(title, metas \o extras, headings)

IsPerformanceDoc(d) ==
    \/ \E images \in SizedImages, scripts \in FewScripts,
          styled \in FewStyled, anchors \in FewAnchors :
            d = Document(GoodTitle, <<>>, images \o scripts \o styled \o anchors)
    \/ \E images \in LoadingImages, scripts \in FewScripts,
          styled \in FewStyled, anchors \in FewAnchors :
            d = Document(GoodTitle, <<>>, images \o scripts \o styled \o anchors)
    \/ \E images \in MixedImages, scripts \in ResourceLists,
          styled \in FewStyled, anchors \in FewAnchors :
            d = Document(GoodTitle, <<>>, images \o scripts \o styled \o anchors)
    \/ \E images \in MixedImages, scripts \in FewScripts,
          styled \in StyledLists, anchors \in FewAnchors :
            d = Document(GoodTitle, <<>>, images \o scripts \o styled \o anchors)
    \/ \E images \in MixedImages, scripts \in FewScripts,
          styled \in FewStyled, anchors \in AnchorLists :
            d = Document(GoodTitle, <<>>, images \o scripts \o styled \o anchors)

ThrowingControls == <<Control("input", Chr_text, <<"x", Quote>>, Null)>>
HeavyLoad ==
    Repeat(Script(Url(OtherHost)), MaxResources) \o Repeat(Styled, MaxStyled)
        \o Repeat(Anchor(Url(OtherHost), Null), MaxAnchors)
\* Pages for the whole engine: the empty page, pages on which every rule of
\* an analyzer fires, and pages whose form control makes the label lookup throw.
IsAnyDoc(d) ==
    \E head \in {<<<<>>, <<>>>>, <<GoodTitle, <<GoodMeta>>>>, <<Xs(MaxTitle), <<>>>>},
       images \in {<<>>, <<GoodImg>>, Repeat(HugeBareImg, MaxImages)},
       controls \in {<<>>, Repeat(TextInput, MaxInputs), ThrowingControls},
       rest \in {<<>>, Headings(<<1, 3>>) \o HeavyLoad} :
        d = Document(head[1], head[2], images \o controls \o rest)

\* Pages for the three analyzers side by side: every combination of which
\* scoring rules and which advisory rules fire, without the page of
\* ThrowingControls.
IsEngineDoc(d) ==
    \E head \in {<<<<>>, <<>>>>, <<Xs(9), <<Meta(Xs(MaxMeta))>>>>,
                  <<GoodTitle, <<GoodMeta>>>>, <<Xs(MaxTitle), <<>>>>},
       headExtras \in HeadExtras,
       images \in {<<>>, <<GoodImg>>, Repeat(HugeBareImg, MaxImages)},
       controls \in {<<>>, Repeat(TextInput, MaxInputs)},
       levels \in {<<>>, <<1>>, <<1, 3>>, <<3>>},
       extras \in Extras,
       load \in {<<>>, <<Anchor(Url(OtherHost), Null)>>, HeavyLoad} :
        d = Document(head[1], head[2] \o headExtras,
                     images \o controls \o Headings(levels) \o extras \o load)

----
(* The popup (src/popup/popup.ts) *)

MaxRuns == 3
MaxSwitches == 2
MaxExports == 1

\* An optional property: <<>> when it is undefined, <<v>> when it is v
Absent == <<>>
Present(v) == <<v>>

\* What chrome.tabs.query resolves with: one tab, with or without id and url
\* (the url is "" before the tab's first commit), or no tab.
Tab(id, url) == [id |-> id, url |-> url]
ExampleUrl == "https://example.com"
Tabs ==
    {Tab(id, url) : id \in {Absent, Present(1), Present(42)},
                    url \in {Absent, Present(""), Present(ExampleUrl)}}
QueryResults == {<<>>} \cup {<<tab>> : tab \in Tabs}

\* tab.id alone for `tab.id && tab.url`
HasIdOnly(tab) == tab.id # Absent /\ tab.id[1] # 0

\* tab.id && tab.url
HasIdAndUrl(tab) ==
    /\ tab.id # Absent /\ tab.id[1] # 0
    /\ tab.url # Absent /\ tab.url[1] # ""

\* What chrome.tabs.sendMessage resolves with
buildCategory(score, issues, suggestions) ==
    [score |-> score, issues |-> issues, suggestions |-> suggestions]
buildResult(score) ==
    [kind |-> "result",
     score |-> score,
     pageInfo |-> [url |-> ExampleUrl, title |-> "Example Page",
                   timestamp |-> "2024-01-15T10:30:00.000Z"],
     categories |->
        [accessibility |-> buildCategory(90, <<>>, <<"Check focus styles">>),
         seo |-> buildCategory(80,
                               <<[type |-> "Page Title", message |-> "Title too short",
                                  severity |-> "medium"]>>,
                               <<>>),
         performance |-> buildCategory(100, <<>>, <<>>)]]
UndefinedResponse == [kind |-> "undefined"]
NullAnalysis == [kind |-> "null"]
Responses == {buildResult(85), buildResult(77), UndefinedResponse}

\* The innerHTML of a panel, by what it shows
Panel(kind, text) == [kind |-> kind, text |-> text]
EmptyPanel == Panel("empty", "")
CouldNotAnalyze == "Could not analyze page. Make sure you're on a valid webpage."

showLoadingState(p) ==
    [p EXCEPT !.overview = Panel("loading", "Analyzing page quality...")]

\* showError writing to the console only
showErrorToConsole(p, text) == p

showError(p, text) == [p EXCEPT !.overview = Panel("error", text)]

\* pageUrl.textContent = url, the url an optional property of the tab
updatePageInfo(p, url) == [p EXCEPT !.pageUrl = url, !.pageInfoShown = TRUE]

\* The four backgrounds of a score card
Excellent == "linear-gradient(135deg, #4facfe 0%, #00f2fe 100%)"
Good == "linear-gradient(135deg, #43e97b 0%, #38f9d7 100%)"
Fair == "linear-gradient(135deg, #fa709a 0%, #fee140 100%)"
Poor == "linear-gradient(135deg, #ff6b6b 0%, #ee5a24 100%)"

\* getScoreColor with the second threshold tested first
getScoreColorGoodFirst(score) ==
    IF score >= 80 THEN Good
    ELSE IF score >= 90 THEN Excellent
    ELSE IF score >= 60 THEN Fair
    ELSE Poor

getScoreColor(score) ==
    IF score >= 90 THEN Excellent
    ELSE IF score >= 80 THEN Good
    ELSE IF score >= 60 THEN Fair
    ELSE Poor

displayCategoryContent(category) ==
    IF Len(category.issues) = 0 /\ Len(category.suggestions) = 0
    THEN Panel("perfect", "No issues found in this category")
    ELSE Panel("category", ToString(category.score))

\* The score card of a category panel: none in the 'Perfect Score!' state
CategoryScoreCard(category) ==
    IF Len(category.issues) = 0 /\ Len(category.suggestions) = 0
    THEN Absent
    ELSE Present(getScoreColor(category.score))

displayResults(p, result) ==
    [p EXCEPT !.scoreCards =
                  [overview |-> Present(getScoreColor(result.score)),
                   accessibility |-> CategoryScoreCard(result.categories.accessibility),
                   seo |-> CategoryScoreCard(result.categories.seo),
                   performance |-> CategoryScoreCard(result.categories.performance)],
              !.overview = Panel("results", ToString(result.score)),
              !.accessibility = displayCategoryContent(result.categories.accessibility),
              !.seo = displayCategoryContent(result.categories.seo),
              !.performance = displayCategoryContent(result.categories.performance)]

\* The finally block of runAnalysis
FinallyBlock(p) == [p EXCEPT !.analyzeDisabled = FALSE, !.analyzeLabel = "Analyze Page"]

\* runAnalysis up to its try block keeping the export button as it was
StartRunAnalysisKeepingExport(p) ==
    [p EXCEPT !.analyzeDisabled = TRUE,
              !.analyzeLabel = "Analyzing...",
              !.overview = Panel("loading", "Analyzing page quality...")]

\* runAnalysis up to its try block leaving the analyze button enabled
StartRunAnalysisKeepingAnalyze(p) ==
    [p EXCEPT !.analyzeLabel = "Analyzing...",
              !.exportDisabled = TRUE,
              !.overview = Panel("loading", "Analyzing page quality...")]

\* runAnalysis up to its try block: both buttons disabled, the loading state
StartRunAnalysis(p) ==
    showLoadingState([p EXCEPT !.analyzeDisabled = TRUE,
                               !.analyzeLabel = "Analyzing...",
                               !.exportDisabled = TRUE])

\* One invocation of runAnalysis: the await it is at ("query", "send") or
\* "done", what the tab query resolved with, how it ended, and what
\* chrome.tabs.sendMessage resolved with, if it did
Run(pc, tabs, outcome, response) ==
    [pc |-> pc, tabs |-> tabs, outcome |-> outcome, response |-> response]

\* The tabs of popup.html: a button [data-tab=name] and a panel #name-tab each
TabNames == {"overview", "accessibility", "seo", "performance"}

\* switchTab adding the class without clearing it from the others
switchTabAdding(p, tabName) ==
    [p EXCEPT !.activeTabs = @ \cup {name \in TabNames : name = tabName},
              !.activePanels = @ \cup {name \in TabNames : name = tabName}]

\* switchTab: 'active' is removed from every .tab and added to the button
\* querySelector finds, if any; the same for the .tab-content panels.
switchTab(p, tabName) ==
    [p EXCEPT !.activeTabs = (@ \ TabNames) \cup {name \in TabNames : name = tabName},
              !.activePanels = (@ \ TabNames) \cup {name \in TabNames : name = tabName}]

\* new Date(): an instant in UTC
Date(year, month, day, hours, minutes, seconds, ms) ==
    [year |-> year, month |-> month, day |-> day,
     hours |-> hours, minutes |-> minutes, seconds |-> seconds, ms |-> ms]

\* The decimal digits of n, zero padded to width
Digits == <<"0", "1", "2", "3", "4", "5", "6", "7", "8", "9">>
Pad(n, width) == [i \in 1..width |-> Digits[((n \div (10 ^ (width - i))) % 10) + 1]]

\* Date.prototype.toISOString: YYYY-MM-DDTHH:mm:ss.sssZ
toISOString(date) ==
    Pad(date.year, 4) \o <<"-">> \o Pad(date.month, 2) \o <<"-">> \o Pad(date.day, 2)
        \o <<"T">> \o Pad(date.hours, 2) \o <<":">> \o Pad(date.minutes, 2)
        \o <<":">> \o Pad(date.seconds, 2) \o <<".">> \o Pad(date.ms, 3) \o <<"Z">>

\* s.split(separator)[0]: s up to the first separator, all of s without one
SplitFirst(s, separator) ==
    IF \E i \in 1..Len(s) : s[i] = separator
    THEN SubSeq(s, 1, (CHOOSE i \in 1..Len(s) :
                          s[i] = separator /\ \A j \in 1..(i - 1) : s[j] # separator) - 1)
    ELSE s

QualityAnalysisDash ==
    <<"q", "u", "a", "l", "i", "t", "y", "-", "a", "n", "a", "l", "y", "s", "i", "s", "-">>
DotJson == <<".", "j", "s", "o", "n">>

\* {...object, [key]: value}
Spread(object, key, value) ==
    [k \in DOMAIN object \cup {key} |-> IF k = key THEN value ELSE object[k]]

\* JSON.stringify of an exported AnalysisResult: the members of each object
\* in insertion order, numbers as their decimal text
JSONStringify(data) ==
    LET String(v) == [json |-> "string", text |-> v]
        Number(n) == [json |-> "number", text |-> ToString(n)]
        Array(items) == [json |-> "array", items |-> items]
        Object(members) == [json |-> "object", members |-> members]
        IssueText(i) ==
            Object(<<<<"type", String(i.type)>>, <<"message", String(i.message)>>,
                     <<"severity", String(i.severity)>>>>
                   \o IF "element" \in DOMAIN i
                      THEN <<<<"element", String(i.element)>>>> ELSE <<>>)
        CategoryText(c) ==
            Object(<<<<"score", Number(c.score)>>,
                     <<"issues",
                       Array([k \in 1..Len(c.issues) |-> IssueText(c.issues[k])])>>,
                     <<"suggestions",
                       Array([k \in 1..Len(c.suggestions) |-> String(c.suggestions[k])])>>>>)
    IN  Object(<<<<"score", Number(data.score)>>,
                 <<"pageInfo",
                   Object(<<<<"url", String(data.pageInfo.url)>>,
                            <<"title", String(data.pageInfo.title)>>,
                            <<"timestamp", String(data.pageInfo.timestamp)>>>>)>>,
                 <<"categories",
                   Object(<<<<"accessibility", CategoryText(data.categories.accessibility)>>,
                            <<"seo", CategoryText(data.categories.seo)>>,
                            <<"performance", CategoryText(data.categories.performance)>>>>)>>>>
               \o IF "exportedAt" \in DOMAIN data
                  THEN <<<<"exportedAt", String(data.exportedAt)>>>> ELSE <<>>)

\* JSON.parse of such a text
JSONParse(text) ==
    LET Keys(o) == {o.members[k][1] : k \in 1..Len(o.members)}
        Member(o, key) ==
            o.members[CHOOSE k \in 1..Len(o.members) : o.members[k][1] = key][2]
        NumberOf(n) == CHOOSE v \in 0..100 : ToString(v) = n.text
        Texts(o) == [k \in Keys(o) |-> Member(o, k).text]
        CategoryOf(o) ==
            [score |-> NumberOf(Member(o, "score")),
             issues |-> [k \in 1..Len(Member(o, "issues").items) |->
                            Texts(Member(o, "issues").items[k])],
             suggestions |-> [k \in 1..Len(Member(o, "suggestions").items) |->
                                 Member(o, "suggestions").items[k].text]]
    IN  [k \in Keys(text) |->
            CASE k = "score" -> NumberOf(Member(text, k))
              [] k = "pageInfo" -> Texts(Member(text, k))
              [] k = "categories" ->
                    [c \in Keys(Member(text, k)) |-> CategoryOf(Member(Member(text, k), c))]
              [] OTHER -> Member(text, k).text]

\* body.removeChild(body.children[i])
RemoveChild(body, i) == SubSeq(body, 1, i - 1) \o SubSeq(body, i + 1, Len(body))

\* exportResults leaving its anchor in the document
exportResultsKeepingAnchor(p, result, first, second) ==
    LET data == Spread(result, "exportedAt", toISOString(first))
        blob == [text |-> JSONStringify(data), type |-> "application/json"]
        a == [tag |-> "a", href |-> [blob |-> blob],
              download |-> Present(QualityAnalysisDash
                                       \o SplitFirst(toISOString(second), "T")
                                       \o DotJson)]
    IN  [p EXCEPT !.body = Append(p.body, a),
                  !.downloads = Append(@, [download |-> a.download[1], blob |-> blob,
                                           data |-> data, argument |-> result,
                                           read |-> <<first, second>>])]

\* exportResults(result), new Date() reading first and then second: the
\* object serialised, the Blob, the anchor appended, clicked and removed.  A
\* download keeps what the click saved, the object handed to JSON.stringify,
\* the argument as it is afterwards and the two instants read.
exportResults(p, result, first, second) ==
    LET data == Spread(result, "exportedAt", toISOString(first))
        blob == [text |-> JSONStringify(data), type |-> "application/json"]
        a == [tag |-> "a", href |-> [blob |-> blob],
              download |-> Present(QualityAnalysisDash
                                       \o SplitFirst(toISOString(second), "T")
                                       \o DotJson)]
        appended == Append(p.body, a)
    IN  [p EXCEPT !.body = RemoveChild(appended, Len(appended)),
                  !.downloads = Append(@, [download |-> a.download[1], blob |-> blob,
                                           data |-> data, argument |-> result,
                                           read |-> <<first, second>>])]

\* The instants an export may read: before and after a midnight, and a date
\* and time of single digits
Instants ==
    <<Date(2026, 11, 4, 23, 59, 59, 999), Date(2026, 11, 5, 0, 0, 0, 0),
      Date(2027, 1, 9, 8, 5, 3, 42)>>

\* An anchor of popup.html itself
HelpLink == [tag |-> "a", href |-> "https://example.com/help", download |-> Absent]

\* popup.html as loaded: the overview tab active, nothing shown, no result held
PopupDocument ==
    [analyzeDisabled |-> FALSE, analyzeLabel |-> "Analyze Page",
     exportDisabled |-> TRUE,
     pageUrl |-> Absent, pageInfoShown |-> FALSE,
     overview |-> EmptyPanel, accessibility |-> EmptyPanel,
     seo |-> EmptyPanel, performance |-> EmptyPanel,
     scoreCards |-> [overview |-> Absent, accessibility |-> Absent,
                     seo |-> Absent, performance |-> Absent],
     activeTabs |-> {"overview"}, activePanels |-> {"overview"}, switched |-> <<>>,
     body |-> <<>>, downloads |-> <<>>,
     currentAnalysis |-> NullAnalysis]

PopupOpened ==
    /\ popup = PopupDocument
    /\ runs = <<>>
    /\ sent = <<>>

----
(* The state machine *)

\* The content script loaded into a page: nothing has been called yet.
Loaded(hosts) ==
    /\ hostname \in hosts
    /\ clock = 0
    /\ accessibility = NotCalled
    /\ seo = NotCalled
    /\ performance = NotCalled
    /\ analysis = NotCalled
    /\ previous = NotCalled
    /\ heard = NoMessage

Init == IsAnyDoc(doc) /\ Loaded({HomeHost}) /\ PopupOpened

AnalyzeAccessibility ==
    /\ accessibility' = analyzeAccessibility(doc)
    /\ UNCHANGED <<doc, hostname, clock, seo, performance, analysis, previous, heard>>
    /\ UNCHANGED popupVars

AnalyzeSEO ==
    /\ seo' = analyzeSEO(doc)
    /\ UNCHANGED <<doc, hostname, clock, accessibility, performance, analysis, previous, heard>>
    /\ UNCHANGED popupVars

AnalyzePerformance ==
    /\ performance' = analyzePerformance(doc, hostname)
    /\ UNCHANGED <<doc, hostname, clock, accessibility, seo, analysis, previous, heard>>
    /\ UNCHANGED popupVars

\* A call of performQualityAnalysis; the caller still holds the result of the
\* call before.
PerformQualityAnalysis ==
    /\ analysis' = performQualityAnalysis(doc, hostname, clock)
    /\ previous' = analysis
    /\ UNCHANGED <<doc, hostname, clock, accessibility, seo, performance, heard>>
    /\ UNCHANGED popupVars

\* A request reaches the chrome.runtime.onMessage listener.
OnMessage ==
    \E action \in RequestActions :
        /\ heard' = onMessage(action, doc, hostname, clock)
        /\ UNCHANGED <<doc, hostname, clock, accessibility, seo, performance,
                       analysis, previous>>
        /\ UNCHANGED popupVars

\* Time passes between calls.
Tick ==
    /\ clock < MaxClock
    /\ clock' = clock + 1
    /\ UNCHANGED <<doc, hostname, accessibility, seo, performance, analysis, previous, heard>>
    /\ UNCHANGED popupVars

Next ==
    \/ AnalyzeAccessibility
    \/ AnalyzeSEO
    \/ AnalyzePerformance
    \/ PerformQualityAnalysis
    \/ OnMessage
    \/ Tick

Spec == Init /\ [][Next]_vars

\* The four exported functions called at one instant, in any order
InitEngine == IsEngineDoc(doc) /\ Loaded({HomeHost}) /\ PopupOpened
NextEngine ==
    \/ AnalyzeAccessibility
    \/ AnalyzeSEO
    \/ AnalyzePerformance
    \/ PerformQualityAnalysis
SpecEngine == InitEngine /\ [][NextEngine]_vars

\* One analyzer applied to the documents that exercise its rules
InitAccessibility == IsAccessibilityDoc(doc) /\ Loaded({HomeHost}) /\ PopupOpened
SpecAccessibility == InitAccessibility /\ [][AnalyzeAccessibility]_vars
InitSEO == IsSeoDoc(doc) /\ Loaded({HomeHost}) /\ PopupOpened
SpecSEO == InitSEO /\ [][AnalyzeSEO]_vars
InitPerformance == IsPerformanceDoc(doc) /\ Loaded(Hostnames) /\ PopupOpened
SpecPerformance == InitPerformance /\ [][AnalyzePerformance]_vars

----
(* The popup's state machine: clicks on the analyze button and the settling of *)
(* the two chrome.tabs promises each runAnalysis awaits                        *)

contentVars ==
    <<doc, hostname, clock, accessibility, seo, performance, analysis, previous, heard>>

\* analyzeButton's click listener: a disabled button gets no click.  The code
\* up to the first await runs at once.
Click ==
    /\ ~popup.analyzeDisabled
    /\ Len(runs) < MaxRuns
    /\ popup' = StartRunAnalysis(popup)
    /\ runs' = Append(runs, Run("query", <<>>, "", Absent))
    /\ UNCHANGED <<sent, contentVars>>

\* chrome.tabs.query resolves: the code from `const [tab] =` to the second
\* await, or to the end of the function.
QueryResolves ==
    \E i \in 1..Len(runs), tabs \in QueryResults :
        /\ runs[i].pc = "query"
        /\ IF tabs = <<>>
           THEN \* tab is undefined: reading tab.id throws a TypeError, caught
                /\ popup' = FinallyBlock(showError(popup, CouldNotAnalyze))
                /\ runs' = [runs EXCEPT ![i] = Run("done", tabs, "no tab", Absent)]
                /\ UNCHANGED sent
           ELSE IF HasIdAndUrl(tabs[1])
           THEN /\ popup' = updatePageInfo(popup, tabs[1].url)
                /\ sent' = Append(sent, [run |-> i, tabId |-> tabs[1].id[1],
                                         message |-> [action |-> "analyze"]])
                /\ runs' = [runs EXCEPT ![i] = Run("send", tabs, "", Absent)]
           ELSE /\ popup' = FinallyBlock(popup)
                /\ runs' = [runs EXCEPT ![i] = Run("done", tabs, "skipped", Absent)]
                /\ UNCHANGED sent
        /\ UNCHANGED contentVars

\* chrome.tabs.query rejects: catch, finally.
QueryRejects ==
    \E i \in 1..Len(runs) :
        /\ runs[i].pc = "query"
        /\ popup' = FinallyBlock(showError(popup, CouldNotAnalyze))
        /\ runs' = [runs EXCEPT ![i] = Run("done", <<>>, "query rejected", Absent)]
        /\ UNCHANGED <<sent, contentVars>>

\* chrome.tabs.sendMessage resolves with the listener's response, or with
\* undefined when the listener sent none: displayResults(undefined) throws a
\* TypeError after currentAnalysis was assigned.
SendResolves ==
    \E i \in 1..Len(runs), response \in Responses :
        /\ runs[i].pc = "send"
        /\ IF response = UndefinedResponse
           THEN /\ popup' = FinallyBlock(showError([popup EXCEPT !.currentAnalysis = response],
                                                   CouldNotAnalyze))
                /\ runs' = [runs EXCEPT ![i] = Run("done", @.tabs, "no response", Present(response))]
           ELSE /\ popup' = FinallyBlock(
                                [displayResults([popup EXCEPT !.currentAnalysis = response],
                                                response)
                                    EXCEPT !.exportDisabled = FALSE])
                /\ runs' = [runs EXCEPT ![i] = Run("done", @.tabs, "succeeded", Present(response))]
        /\ UNCHANGED <<sent, contentVars>>

\* chrome.tabs.sendMessage rejects (no content script in the tab, say): catch,
\* finally.
SendRejects ==
    \E i \in 1..Len(runs) :
        /\ runs[i].pc = "send"
        /\ popup' = FinallyBlock(showError(popup, CouldNotAnalyze))
        /\ runs' = [runs EXCEPT ![i] = Run("done", @.tabs, "send rejected", Absent)]
        /\ UNCHANGED <<sent, contentVars>>

\* The popup once an analysis has sent its message: what arrives is a result
\* of any score, the tab buttons are clicked, the export button is clicked.
InitControls ==
    /\ doc = Document(<<>>, <<>>, <<>>)
    /\ Loaded({HomeHost})
    /\ \E body \in {<<>>, <<HelpLink>>} :
          popup = updatePageInfo(StartRunAnalysis([PopupDocument EXCEPT !.body = body]),
                                 Present(ExampleUrl))
    /\ runs = <<Run("send", <<Tab(Present(1), Present(ExampleUrl))>>, "", Absent)>>
    /\ sent = <<[run |-> 1, tabId |-> 1, message |-> [action |-> "analyze"]]>>

\* chrome.tabs.sendMessage resolves with an AnalysisResult of some score
SendResolvesWithScore ==
    \E i \in 1..Len(runs), score \in 0..100 :
        /\ runs[i].pc = "send"
        /\ popup' = FinallyBlock(
                        [displayResults([popup EXCEPT !.currentAnalysis = buildResult(score)],
                                        buildResult(score))
                            EXCEPT !.exportDisabled = FALSE])
        /\ runs' = [runs EXCEPT ![i] = Run("done", @.tabs, "succeeded",
                                           Present(buildResult(score)))]
        /\ UNCHANGED <<sent, contentVars>>

\* A tab button's click listener: switchTab(tab.getAttribute('data-tab'))
SwitchTab ==
    \E tabName \in TabNames :
        /\ Len(popup.switched) < MaxSwitches
        /\ popup' = [switchTab(popup, tabName) EXCEPT !.switched = Append(@, tabName)]
        /\ UNCHANGED <<runs, sent, contentVars>>

\* The export button's click listener (a disabled button gets no click);
\* new Date() reads an instant, then the same or the next one.
ExportClick ==
    \E i \in 1..Len(Instants), j \in 1..Len(Instants) :
        /\ j \in {i, i + 1}
        /\ ~popup.exportDisabled
        /\ Len(popup.downloads) < MaxExports
        /\ popup' = IF popup.currentAnalysis.kind = "result"
                    THEN exportResults(popup, popup.currentAnalysis, Instants[i], Instants[j])
                    ELSE popup
        /\ UNCHANGED <<runs, sent, contentVars>>

NextControls ==
    \/ SendResolvesWithScore
    \/ SwitchTab
    \/ ExportClick

SpecControls == InitControls /\ [][NextControls]_vars

NextPopup ==
    \/ Click
    \/ QueryResolves
    \/ QueryRejects
    \/ SendResolves
    \/ SendRejects

\* The popup opened over some page; the page plays no part in what follows.
InitPopup == doc = Document(<<>>, <<>>, <<>>) /\ Loaded({HomeHost}) /\ PopupOpened
SpecPopup == InitPopup /\ [][NextPopup]_vars

----
(* Properties *)

IssuesOfType(result, type) == SelectSeq(result.issues, LAMBDA i : i.type = type)
CategorySum(r) ==
    r.categories.accessibility.score + r.categories.seo.score
        + r.categories.performance.score

\* C1: whatever the document, a score that analyzeAccessibility, analyzeSEO or
\* analyzePerformance returns is an integer between 0 and 100.
C1_CategoryScoresInRange ==
    /\ accessibility.status = "returned" => accessibility.value.score \in 0..100
    /\ seo.status = "returned" => seo.value.score \in 0..100
    /\ performance.status = "returned" => performance.value.score \in 0..100

\* All three analyzers have returned, each with every one of its rules at its cap.
C1_Witness ==
    /\ accessibility.status = "returned" /\ accessibility.value.score = 45
    /\ seo.status = "returned" /\ seo.value.score < 100
    /\ performance.status = "returned" /\ performance.value.score = 40

\* C2: the score performQualityAnalysis returns is the mean of the three
\* category scores of the same result rounded to the nearest integer (a tie
\* going up), it lies in 0..100, and the result holds the three category
\* results, which are those of the three analyzers on this document.
C2_OverallScoreIsRoundedMean ==
    analysis.status = "returned" =>
        LET r == analysis.value
        IN  /\ DOMAIN r.categories = {"accessibility", "seo", "performance"}
            /\ 2 * CategorySum(r) >= 6 * r.score - 3
            /\ 2 * CategorySum(r) < 6 * r.score + 3
            /\ r.score \in 0..100
            /\ r.categories.accessibility = analyzeAccessibility(doc).value
            /\ r.categories.seo = analyzeSEO(doc).value
            /\ r.categories.performance = analyzePerformance(doc, hostname).value

\* A mean that is not an integer and is rounded up.
C2_Witness ==
    /\ analysis.status = "returned"
    /\ CategorySum(analysis.value) % 3 = 2
    /\ 3 * analysis.value.score = CategorySum(analysis.value) + 1

\* C3: no call of the engine throws, whatever the document holds.
C3_EngineNeverThrows ==
    /\ accessibility.status # "threw"
    /\ seo.status # "threw"
    /\ performance.status # "threw"
    /\ analysis.status # "threw"

\* The document with some of its elements taken out, or with another title
Without(d, selector) ==
    [title |-> d.title,
     elements |-> SelectSeq(d.elements, LAMBDA e : ~Matches(e, selector))]
AllWhiteSpace(str) == \A i \in 1..Len(str) : IsWhiteSpace(str[i])

\* C4: an image lacks alt text iff its alt attribute is absent, empty or
\* white space only; with n such images a returned accessibility result holds
\* one 'Missing Alt Text' issue (high, "<n> images missing alt text") iff
\* n > 0, and its score is min(25, 3n) below that of the same document
\* without its images.
C4_ImageLacksAlt(e) ==
    IsImg(e) /\ (~HasAttribute(e, "alt") \/ AllWhiteSpace(e.attrs["alt"]))

C4_AltTextRule ==
    accessibility.status = "returned" =>
        LET n == Len(SelectSeq(doc.elements, C4_ImageLacksAlt))
            found == IssuesOfType(accessibility.value, "Missing Alt Text")
            rest == analyzeAccessibility(Without(doc, "img")).value
        IN  /\ Len(found) = IF n > 0 THEN 1 ELSE 0
            /\ n > 0 => /\ found[1].severity = "high"
                        /\ found[1].message = <<ToString(n), " images missing alt text">>
            /\ accessibility.value.score = rest.score - Min(25, 3 * n)
            /\ (n = 2 /\ rest.score = 100) => accessibility.value.score = 94
            /\ (n = 10 /\ rest.score = 100) => accessibility.value.score = 75

\* The cap is reached, one of the images has a white-space-only alt, and
\* another rule has fired too.
C4_Witness ==
    /\ accessibility.status = "returned"
    /\ Len(SelectSeq(doc.elements, C4_ImageLacksAlt)) = 10
    /\ \E i \in 1..Len(doc.elements) :
          /\ C4_ImageLacksAlt(doc.elements[i])
          /\ HasAttribute(doc.elements[i], "alt")
          /\ doc.elements[i].attrs["alt"] # <<>>
    /\ Len(accessibility.value.issues) > 1
    /\ IssuesOfType(accessibility.value, "Missing Alt Text") # <<>>

\* C5: a text/email/password input, textarea or select is unlabelled iff no
\* label's for equals its id (when it has one) and it has no aria-label; with
\* n unlabelled elements a returned accessibility result holds one
\* 'Form Accessibility' issue (high) iff n > 0 and loses min(20, 4n) points.
\* ("has an id", "has an aria-label" are read as the code reads them: with a
\* value that is not empty.)
C5_Unlabelled(e) ==
    /\ IsFormInput(e)
    /\ ~(/\ HasAttribute(e, "id") /\ e.attrs["id"] # <<>>
         /\ \E i \in 1..Len(doc.elements) :
               /\ doc.elements[i].tag = "label"
               /\ HasAttribute(doc.elements[i], "for")
               /\ doc.elements[i].attrs["for"] = e.attrs["id"])
    /\ ~(HasAttribute(e, "aria-label") /\ e.attrs["aria-label"] # <<>>)

C5_FormLabelRule ==
    accessibility.status = "returned" =>
        LET n == Len(SelectSeq(doc.elements, C5_Unlabelled))
            found == IssuesOfType(accessibility.value, "Form Accessibility")
            rest == analyzeAccessibility(Without(doc, "input[type=text], input[type=email], input[type=password], textarea, select")).value
        IN  /\ Len(found) = IF n > 0 THEN 1 ELSE 0
            /\ n > 0 => found[1].severity = "high"
            /\ accessibility.value.score = rest.score - Min(20, 4 * n)

\* C6 as stated: a 'Heading Hierarchy' issue iff some heading's level exceeds
\* the level of the heading just before it by more than 1.
C6_SkipsAfter(levels, from) ==
    {i \in from..Len(levels) : levels[i] > (IF i = 1 THEN 0 ELSE levels[i - 1]) + 1}

C6_FlaggedIffSkipBetweenHeadings ==
    accessibility.status = "returned" =>
        (IssuesOfType(accessibility.value, "Heading Hierarchy") # <<>>
            <=> C6_SkipsAfter(HeadingLevels(doc), 2) # {})

\* C6 as amended: the walk starts from level 0, so the first heading counts
\* as a skip when it is not an h1; flagged or not, there is at most one issue
\* (medium), and a flagged document loses exactly 10 points.
C6_HeadingHierarchyRule ==
    accessibility.status = "returned" =>
        LET skips == C6_SkipsAfter(HeadingLevels(doc), 1)
            found == IssuesOfType(accessibility.value, "Heading Hierarchy")
            rest == analyzeAccessibility(Without(doc, "h1, h2, h3, h4, h5, h6")).value
        IN  /\ Len(found) = IF skips # {} THEN 1 ELSE 0
            /\ skips # {} => found[1].severity = "medium"
            /\ accessibility.value.score = rest.score - (IF skips # {} THEN 10 ELSE 0)

\* Two skips, one issue.
C6_Witness ==
    /\ accessibility.status = "returned"
    /\ Cardinality(C6_SkipsAfter(HeadingLevels(doc), 2)) = 2
    /\ Len(IssuesOfType(accessibility.value, "Heading Hierarchy")) = 1

\* C7: of a returned SEO result, by the title: empty or white space only
\* gives 'Page has no title' (high, -25); otherwise a length under 10 gives
\* 'Page title is too short' (medium, -15); otherwise a length over 60 gives
\* 'Page title is too long' (low, -5); a length in 10..60 gives no
\* 'Page Title' issue.  Never more than one 'Page Title' issue.
C7_TitleCase(title) ==
    CASE AllWhiteSpace(title) -> [message |-> <<"Page has no title">>, severity |-> "high", points |-> 25]
      [] ~AllWhiteSpace(title) /\ Len(title) < 10 ->
            [message |-> <<"Page title is too short">>, severity |-> "medium", points |-> 15]
      [] ~AllWhiteSpace(title) /\ Len(title) > 60 ->
            [message |-> <<"Page title is too long">>, severity |-> "low", points |-> 5]
      [] ~AllWhiteSpace(title) /\ Len(title) \in 10..60 ->
            [message |-> <<>>, severity |-> "", points |-> 0]

C7_TitleRule ==
    seo.status = "returned" =>
        LET case == C7_TitleCase(doc.title)
            found == IssuesOfType(seo.value, "Page Title")
            rest == analyzeSEO([doc EXCEPT !.title = Xs(30)]).value
        IN  /\ Len(found) = IF case.points > 0 THEN 1 ELSE 0
            /\ case.points > 0 => /\ found[1].message = case.message
                                  /\ found[1].severity = case.severity
            /\ seo.value.score = rest.score - case.points

\* A title of white space only, longer than 60: the first case wins.
C7_Witness ==
    /\ seo.status = "returned"
    /\ AllWhiteSpace(doc.title)
    /\ Len(doc.title) > 60
    /\ IssuesOfType(seo.value, "Page Title")[1].message = <<"Page has no title">>

\* The first meta[name="description"] element of the document, if any.
C8_Descriptions == SelectSeq(doc.elements, IsMetaDescription)

C8_MetaCase(missing, length) ==
    IF missing
    THEN [message |-> <<"Missing meta description">>, severity |-> "high", points |-> 20]
    ELSE IF length < 120
    THEN [message |-> <<"Meta description is too short">>, severity |-> "medium", points |-> 10]
    ELSE IF length > 160
    THEN [message |-> <<"Meta description is too long">>, severity |-> "low", points |-> 5]
    ELSE [message |-> <<>>, severity |-> "", points |-> 0]

C8_Holds(case) ==
    LET found == IssuesOfType(seo.value, "Meta Description")
        rest == analyzeSEO([doc EXCEPT !.elements = <<GoodMeta>> \o @]).value
    IN  /\ Len(found) = IF case.points > 0 THEN 1 ELSE 0
        /\ case.points > 0 => /\ found[1].message = case.message
                              /\ found[1].severity = case.severity
        /\ seo.value.score = rest.score - case.points

\* C8 as stated: 'Missing meta description' (high, -20) iff there is no
\* meta[name=description] element or it has no content attribute; otherwise
\* by the content's length L: L < 120 too short (medium, -10), L > 160 too
\* long (low, -5), 120..160 no issue.
C8_MissingIffNoContentAttribute ==
    seo.status = "returned" =>
        C8_Holds(C8_MetaCase(\/ C8_Descriptions = <<>>
                             \/ ~HasAttribute(C8_Descriptions[1], "content"),
                             IF C8_Descriptions # <<>>
                                /\ HasAttribute(C8_Descriptions[1], "content")
                             THEN Len(C8_Descriptions[1].attrs["content"]) ELSE 0))

\* C8 as amended: an empty content attribute counts as missing too.
C8_MetaDescriptionRule ==
    seo.status = "returned" =>
        C8_Holds(C8_MetaCase(\/ C8_Descriptions = <<>>
                             \/ ~HasAttribute(C8_Descriptions[1], "content")
                             \/ C8_Descriptions[1].attrs["content"] = <<>>,
                             IF C8_Descriptions # <<>>
                                /\ HasAttribute(C8_Descriptions[1], "content")
                             THEN Len(C8_Descriptions[1].attrs["content"]) ELSE 0))

\* <meta name="description" content=""> reported as missing.
C8_Witness ==
    /\ seo.status = "returned"
    /\ C8_Descriptions # <<>>
    /\ HasAttribute(C8_Descriptions[1], "content")
    /\ C8_Descriptions[1].attrs["content"] = <<>>
    /\ IssuesOfType(seo.value, "Meta Description")[1].message = <<"Missing meta description">>

\* C9: of a returned SEO result, with k h1 elements: k = 0 gives
\* 'No H1 heading found' (high, -20), k > 1 gives
\* 'Multiple H1 headings found (<k>)' (medium, -15), k = 1 gives no
\* 'H1 Heading' issue and takes no points.
C9_IsH1Element(e) == e.tag = "h1"

C9_H1Rule ==
    seo.status = "returned" =>
        LET k == Len(SelectSeq(doc.elements, C9_IsH1Element))
            found == IssuesOfType(seo.value, "H1 Heading")
            rest == analyzeSEO([doc EXCEPT !.elements =
                        SelectSeq(@, LAMBDA e : ~C9_IsH1Element(e))
                            \o Headings(<<1>>)]).value
        IN  /\ Len(found) = IF k = 1 THEN 0 ELSE 1
            /\ k = 0 => /\ found[1].message = <<"No H1 heading found">>
                        /\ found[1].severity = "high"
                        /\ seo.value.score = rest.score - 20
            /\ k > 1 => /\ found[1].message =
                                <<"Multiple H1 headings found (", ToString(k), ")">>
                        /\ found[1].severity = "medium"
                        /\ seo.value.score = rest.score - 15
            /\ k = 1 => seo.value.score = rest.score

\* Two h1 elements beside a heading of another level.
C9_Witness ==
    /\ seo.status = "returned"
    /\ Len(SelectSeq(doc.elements, C9_IsH1Element)) = 2
    /\ Len(QuerySelectorAll(doc, "h1, h2, h3, h4, h5, h6")) = 3
    /\ IssuesOfType(seo.value, "H1 Heading")[1].message =
            <<"Multiple H1 headings found (", "2", ")">>

\* C10: an image is large iff its intrinsic width is over 1920 or its
\* intrinsic height is over 1080; with n large images a returned performance
\* result holds one 'Image Optimization' issue (medium) iff n > 0, and its
\* score is min(20, 3n) below that of the same document with every image
\* at 1920x1080.
C10_Large(e) == IsImg(e) /\ ~(e.naturalWidth <= 1920 /\ e.naturalHeight <= 1080)

C10_LargeImagesRule ==
    performance.status = "returned" =>
        LET n == Len(SelectSeq(doc.elements, C10_Large))
            found == IssuesOfType(performance.value, "Image Optimization")
            fitted == [doc EXCEPT !.elements =
                          [i \in 1..Len(@) |->
                              IF IsImg(@[i])
                              THEN [@[i] EXCEPT !.naturalWidth = 1920, !.naturalHeight = 1080]
                              ELSE @[i]]]
            rest == analyzePerformance(fitted, hostname).value
        IN  /\ Len(found) = IF n > 0 THEN 1 ELSE 0
            /\ n > 0 => found[1].severity = "medium"
            /\ performance.value.score = rest.score - Min(20, 3 * n)

\* The cap is reached and one of the large images is 1920x1081.
C10_Witness ==
    /\ performance.status = "returned"
    /\ Len(SelectSeq(doc.elements, C10_Large)) >= 7
    /\ \E i \in 1..Len(doc.elements) :
          /\ IsImg(doc.elements[i])
          /\ doc.elements[i].naturalWidth = 1920
          /\ doc.elements[i].naturalHeight = 1081
    /\ Len(performance.value.issues) > 1

\* Helpers of the performance claims: an element with an attribute set or
\* removed, and the scheme and host of a URL.
SetAttribute(e, name, v) == [e EXCEPT !.attrs = (name :> v) @@ e.attrs]
RemoveAttribute(e, name) ==
    [e EXCEPT !.attrs = [n \in (DOMAIN e.attrs) \ {name} |-> e.attrs[n]]]
Letters ==
    {"a", "b", "c", "d", "e", "f", "g", "h", "i", "j", "k", "l", "m",
     "n", "o", "p", "q", "r", "s", "t", "u", "v", "w", "x", "y", "z"}
\* An absolute URL starts with a scheme and a colon.
IsAbsoluteUrl(url) ==
    \E i \in 2..Len(url) : url[i] = ":" /\ \A j \in 1..(i - 1) : url[j] \in Letters
\* The host of scheme://host/path?query
UrlHost(url) ==
    LET starts == {i \in 1..(Len(url) - 2) : SubSeq(url, i, i + 2) = <<":", "/", "/">>}
        start == CHOOSE i \in starts : \A j \in starts : i <= j
        after == SubSeq(url, start + 3, Len(url))
        stops == {i \in 1..Len(after) : after[i] \in {"/", "?", "#"}}
    IN  IF stops = {} THEN after
        ELSE SubSeq(after, 1, (CHOOSE i \in stops : \A j \in stops : i <= j) - 1)

\* C11 as stated: the images counted are those with no loading attribute at
\* all; one 'Lazy Loading' issue (low) iff the count is over 3, and then 10
\* points are deducted.
C11_NoLoadingAttribute(e) == IsImg(e) /\ ~HasAttribute(e, "loading")
C11_Holds(count) ==
    LET found == IssuesOfType(performance.value, "Lazy Loading")
        lazy == [doc EXCEPT !.elements =
                    [i \in 1..Len(@) |->
                        IF IsImg(@[i]) THEN SetAttribute(@[i], "loading", Chr_lazy)
                        ELSE @[i]]]
        rest == analyzePerformance(lazy, hostname).value
    IN  /\ Len(found) = IF count > 3 THEN 1 ELSE 0
        /\ count > 3 => found[1].severity = "low"
        /\ performance.value.score = rest.score - (IF count > 3 THEN 10 ELSE 0)

C11_CountsOnlyAbsentLoading ==
    performance.status = "returned" =>
        C11_Holds(Len(SelectSeq(doc.elements, C11_NoLoadingAttribute)))

\* C11: the images counted are those whose loading attribute is absent or
\* empty; a returned performance result holds one 'Lazy Loading' issue (low)
\* iff the count is over 3, and its score is then 10 below that of the same
\* document with loading="lazy" on every image, whatever the count; with 3 or
\* fewer the score is the same.
C11_WithoutLoading(e) ==
    IsImg(e) /\ (~HasAttribute(e, "loading") \/ e.attrs["loading"] = <<>>)

C11_LazyLoadingRule ==
    performance.status = "returned" =>
        C11_Holds(Len(SelectSeq(doc.elements, C11_WithoutLoading)))

\* Four images counted, one of them with loading="", and as many again with
\* more than four.
C11_Witness ==
    /\ performance.status = "returned"
    /\ Len(SelectSeq(doc.elements, C11_WithoutLoading)) = 4
    /\ Len(SelectSeq(doc.elements, C11_NoLoadingAttribute)) = 3
    /\ Len(IssuesOfType(performance.value, "Lazy Loading")) = 1

\* C12 as stated: total counts the script[src] and link[href] elements whose
\* URL is absolute; one 'External Resources' issue iff total > 10, and the
\* score drops by min(15, (total - 10) * 2).
C12_IsResource(e) == e.tag \in {"script", "link"}
C12_Url(e) == IF e.tag = "script" THEN GetAttribute(e, "src") ELSE GetAttribute(e, "href")
C12_Holds(total) ==
    LET found == IssuesOfType(performance.value, "External Resources")
        rest == analyzePerformance(
                    [doc EXCEPT !.elements = SelectSeq(@, LAMBDA e : ~C12_IsResource(e))],
                    hostname).value
    IN  /\ Len(found) = IF total > 10 THEN 1 ELSE 0
        /\ total > 10 =>
              /\ found[1].severity = "medium"
              /\ found[1].message = <<ToString(total), " external resources detected">>
              /\ performance.value.score = rest.score - Min(15, (total - 10) * 2)
        /\ total <= 10 => performance.value.score = rest.score
        /\ (total = 11 /\ Len(performance.value.issues) = 1) => performance.value.score = 98
        /\ (total = 20 /\ Len(performance.value.issues) = 1) => performance.value.score = 85

C12_AbsoluteResource(e) ==
    C12_IsResource(e) /\ C12_Url(e) # Null /\ IsAbsoluteUrl(C12_Url(e))

C12_CountsAbsoluteUrls ==
    performance.status = "returned" =>
        C12_Holds(Len(SelectSeq(doc.elements, C12_AbsoluteResource)))

\* C12: total counts the script elements whose src, and the link elements
\* whose href, begins with the four characters http; a returned performance
\* result holds one 'External Resources' issue (medium, "<total> external
\* resources detected") iff total > 10, and its score is then
\* min(15, (total - 10) * 2) below that of the document without its scripts
\* and links: 10 gives no issue, 11 alone gives 98, 20 alone gives 85.
C12_HttpResource(e) ==
    C12_IsResource(e) /\ C12_Url(e) # Null /\ StartsWith(C12_Url(e), Chr_http)

C12_ExternalResourcesRule ==
    performance.status = "returned" =>
        C12_Holds(Len(SelectSeq(doc.elements, C12_HttpResource)))

\* Twenty resources, scripts and a stylesheet, and no other rule fires.
C12_Witness ==
    /\ performance.status = "returned"
    /\ Len(SelectSeq(doc.elements, C12_HttpResource)) = 20
    /\ \E i \in 1..Len(doc.elements) : doc.elements[i].tag = "link"
    /\ Len(performance.value.issues) = 1
    /\ performance.value.score = 85

\* C13: with c elements carrying a style attribute, empty or not, a returned
\* performance result holds one 'Inline Styles' issue (low) iff c > 20, and
\* its score is then 5 below that of the same document with the style
\* attributes removed, whatever c is; with c <= 20 the score is the same.
C13_InlineStylesRule ==
    performance.status = "returned" =>
        LET c == Len(SelectSeq(doc.elements, LAMBDA e : HasAttribute(e, "style")))
            found == IssuesOfType(performance.value, "Inline Styles")
            plain == [doc EXCEPT !.elements =
                         [i \in 1..Len(@) |-> RemoveAttribute(@[i], "style")]]
            rest == analyzePerformance(plain, hostname).value
        IN  /\ Len(found) = IF c > 20 THEN 1 ELSE 0
            /\ c > 20 => found[1].severity = "low"
            /\ performance.value.score = rest.score - (IF c > 20 THEN 5 ELSE 0)

\* Twenty-one styled elements, one of them with style="".
C13_Witness ==
    /\ performance.status = "returned"
    /\ Len(SelectSeq(doc.elements, LAMBDA e : HasAttribute(e, "style"))) = 21
    /\ \E i \in 1..Len(doc.elements) :
          HasAttribute(doc.elements[i], "style") /\ doc.elements[i].attrs["style"] = <<>>
    /\ Len(IssuesOfType(performance.value, "Inline Styles")) = 1

\* C14 as stated: an anchor is external iff its href is absolute and its host
\* differs from the page's host; n counts the external anchors with no rel
\* attribute; one 'External Links' issue (low) iff n > 0, and the score drops
\* by min(10, n).
C14_Href(e) == GetAttribute(e, "href")
C14_OtherHost(e) ==
    /\ e.tag = "a"
    /\ C14_Href(e) # Null
    /\ IsAbsoluteUrl(C14_Href(e))
    /\ UrlHost(C14_Href(e)) # hostname
C14_Holds(n) ==
    LET found == IssuesOfType(performance.value, "External Links")
        rest == analyzePerformance(Without(doc, "a[href^=http]"), hostname).value
    IN  /\ Len(found) = IF n > 0 THEN 1 ELSE 0
        /\ n > 0 => found[1].severity = "low"
        /\ performance.value.score = rest.score - Min(10, n)

C14_ExternalIffHostDiffers ==
    performance.status = "returned" =>
        C14_Holds(Len(SelectSeq(doc.elements,
                                LAMBDA e : C14_OtherHost(e) /\ ~HasAttribute(e, "rel"))))

\* C14: an anchor is counted iff its href begins with http, does not contain
\* the page's hostname anywhere in it, and its rel attribute is absent or
\* empty; with n such anchors a returned performance result holds one
\* 'External Links' issue (low) iff n > 0, and its score is min(10, n) below
\* that of the document without its http anchors; an anchor whose href's host
\* is the page's own is never counted.
C14_Counted(e) ==
    /\ e.tag = "a"
    /\ C14_Href(e) # Null
    /\ StartsWith(C14_Href(e), Chr_http)
    /\ ~Includes(C14_Href(e), hostname)
    /\ (~HasAttribute(e, "rel") \/ e.attrs["rel"] = <<>>)

C14_ExternalLinksRule ==
    performance.status = "returned" =>
        /\ C14_Holds(Len(SelectSeq(doc.elements, C14_Counted)))
        /\ \A i \in 1..Len(doc.elements) :
              LET e == doc.elements[i]
              IN  (e.tag = "a" /\ C14_Href(e) # Null /\ IsAbsoluteUrl(C14_Href(e))
                     /\ UrlHost(C14_Href(e)) = hostname) => ~C14_Counted(e)

\* Eleven anchors are counted, the cap, beside one to the page's own host.
C14_Witness ==
    /\ performance.status = "returned"
    /\ Len(SelectSeq(doc.elements, C14_Counted)) = 11
    /\ \E i \in 1..Len(doc.elements) :
          /\ doc.elements[i].tag = "a"
          /\ C14_Href(doc.elements[i]) = Url(hostname)
    /\ Len(IssuesOfType(performance.value, "External Links")) = 1

\* C15: the suggestions of a returned performance result end with the CDN,
\* gzip and minification suggestions, in that order, and there are three more
\* suggestions than issues.
C15_FixedSuggestionsLast ==
    performance.status = "returned" =>
        LET suggestions == performance.value.suggestions
            n == Len(suggestions)
        IN  /\ n = Len(performance.value.issues) + 3
            /\ suggestions[n - 2] =
                   "Consider using a Content Delivery Network (CDN) for static assets"
            /\ suggestions[n - 1] = "Enable gzip compression on your server"
            /\ suggestions[n] = "Minify CSS and JavaScript files"

\* All five rules fired.
C15_Witness ==
    /\ performance.status = "returned"
    /\ Len(performance.value.issues) = 5
    /\ Len(performance.value.suggestions) = 8

\* C16: when the listener has handled a request whose action is 'analyze' it
\* has returned and has called sendResponse exactly once, with the
\* AnalysisResult of performQualityAnalysis on this page; when it has handled a
\* request with any other action it has not called sendResponse.
C16_ListenerResponds ==
    heard.status # "none" =>
        IF heard.action = "analyze"
        THEN /\ heard.status = "returned"
             /\ Len(heard.sendResponse) = 1
             /\ \E now \in 0..clock :
                   Returned(heard.sendResponse[1]) = performQualityAnalysis(doc, hostname, now)
        ELSE heard.sendResponse = <<>>

\* C17: on a page without elements analyzeAccessibility returns score 100 and
\* no issues, and analyzePerformance returns score 100, no issues and exactly
\* the three fixed suggestions.
C17_EmptyDocument ==
    doc.elements = <<>> =>
        /\ accessibility.status # "none" =>
              /\ accessibility.status = "returned"
              /\ accessibility.value.score = 100
              /\ accessibility.value.issues = <<>>
        /\ performance.status # "none" =>
              /\ performance.status = "returned"
              /\ performance.value.score = 100
              /\ performance.value.issues = <<>>
              /\ performance.value.suggestions =
                     <<"Consider using a Content Delivery Network (CDN) for static assets",
                       "Enable gzip compression on your server",
                       "Minify CSS and JavaScript files">>

\* Both analyzers have run on the page with no element and no title.
C17_Witness ==
    /\ doc.elements = <<>>
    /\ doc.title = <<>>
    /\ accessibility.status = "returned"
    /\ performance.status = "returned"

C19_TransportFailures == {"no tab", "query rejected", "send rejected", "no response"}
C20_Messages(i) == SelectSeq(sent, LAMBDA m : m.run = i)
C20_AtMostOneMessage ==
    \A i \in 1..Len(runs) :
        LET messages == C20_Messages(i)
            tabs == runs[i].tabs
        IN  IF /\ runs[i].pc # "query"
               /\ tabs # <<>>
               /\ tabs[1].id # Absent
               /\ tabs[1].url \notin {Absent, Present("")}
            THEN /\ Len(messages) = 1
                 /\ messages[1].tabId = tabs[1].id[1]
                 /\ messages[1].message = [action |-> "analyze"]
            ELSE messages = <<>>

\* One analysis has sent its message to tab 42, another found a tab with an
\* id and no url, a third is waiting for its tab query.
C20_Witness ==
    /\ Len(runs) = 3
    /\ runs[1].tabs = <<Tab(Present(42), Present(ExampleUrl))>>
    /\ Len(C20_Messages(1)) = 1
    /\ runs[2].tabs = <<Tab(Present(1), Absent)>>
    /\ runs[3].pc = "query"

\* The issue types of each analyzer in the order its rules run
AccessibilityOrder == <<"Missing Alt Text", "Form Accessibility", "Heading Hierarchy">>
SEOOrder == <<"Page Title", "Meta Description", "H1 Heading">>
PerformanceOrder ==
    <<"Image Optimization", "Lazy Loading", "External Resources", "Inline Styles",
      "External Links">>
\* The issues are of the types of order, each type at most once, in order's order.
InRuleOrder(issues, order) ==
    /\ \A i \in 1..Len(issues) : \E k \in 1..Len(order) : order[k] = issues[i].type
    /\ \A i, j \in 1..Len(issues) :
          i < j => \A k, l \in 1..Len(order) :
                       (order[k] = issues[i].type /\ order[l] = issues[j].type) => k < l

\* C24: in every category result, returned by an analyzer or held in an
\* AnalysisResult, the issues are of the analyzer's types, in the order its
\* rules run, with no type twice.
C24_IssuesInRuleOrder ==
    /\ accessibility.status = "returned" =>
          InRuleOrder(accessibility.value.issues, AccessibilityOrder)
    /\ seo.status = "returned" => InRuleOrder(seo.value.issues, SEOOrder)
    /\ performance.status = "returned" =>
          InRuleOrder(performance.value.issues, PerformanceOrder)
    /\ analysis.status = "returned" =>
          /\ InRuleOrder(analysis.value.categories.accessibility.issues, AccessibilityOrder)
          /\ InRuleOrder(analysis.value.categories.seo.issues, SEOOrder)
          /\ InRuleOrder(analysis.value.categories.performance.issues, PerformanceOrder)

\* Every rule of every analyzer has fired, and the SEO issues run medium, low,
\* high: not by severity.
C24_Witness ==
    /\ accessibility.status = "returned" /\ Len(accessibility.value.issues) = 3
    /\ performance.status = "returned" /\ Len(performance.value.issues) = 5
    /\ seo.status = "returned" /\ Len(seo.value.issues) = 3
    /\ seo.value.issues[1].severity = "medium"
    /\ seo.value.issues[2].severity = "low"
    /\ seo.value.issues[3].severity = "high"

\* C25: a returned accessibility result has one suggestion per issue plus one
\* for the color-contrast advisory when some style attribute contains "color"
\* and one for the focus advisory when the page has a button, a, input, select
\* or textarea; a returned SEO result has one per issue plus one when there is
\* no canonical link and one when og:title or og:description is missing; and
\* the scores are those of the page without its style attributes, buttons and
\* anchors, and of the page with or without canonical and Open Graph tags.
C25_ColorFires ==
    \E i \in 1..Len(doc.elements) :
        /\ HasAttribute(doc.elements[i], "style")
        /\ Includes(doc.elements[i].attrs["style"], Chr_color)
C25_FocusFires ==
    \E i \in 1..Len(doc.elements) :
        doc.elements[i].tag \in {"button", "a", "input", "select", "textarea"}
C25_CanonicalFires == ~\E i \in 1..Len(doc.elements) : IsCanonical(doc.elements[i])
C25_OpenGraphFires ==
    \/ ~\E i \in 1..Len(doc.elements) : IsOgTitle(doc.elements[i])
    \/ ~\E i \in 1..Len(doc.elements) : IsOgDescription(doc.elements[i])
C25_IsSocialTag(e) == IsCanonical(e) \/ IsOgTitle(e) \/ IsOgDescription(e)
C25_NoAdvisoryTriggers ==
    [title |-> doc.title,
     elements |->
        LET kept == SelectSeq(doc.elements, LAMBDA e : e.tag \notin {"button", "a"})
        IN  [i \in 1..Len(kept) |-> RemoveAttribute(kept[i], "style")]]
C25_NoSocialTags ==
    [title |-> doc.title, elements |-> SelectSeq(doc.elements, LAMBDA e : ~C25_IsSocialTag(e))]
C25_AllSocialTags ==
    [title |-> doc.title,
     elements |-> <<Canonical, OgTitle, OgDescription>> \o C25_NoSocialTags.elements]

C25_SuggestionsAndAdvisories ==
    /\ accessibility.status = "returned" =>
          /\ Len(accessibility.value.suggestions) =
                 Len(accessibility.value.issues)
                     + (IF C25_ColorFires THEN 1 ELSE 0) + (IF C25_FocusFires THEN 1 ELSE 0)
          /\ accessibility.value.score = analyzeAccessibility(C25_NoAdvisoryTriggers).value.score
          /\ accessibility.value.issues = analyzeAccessibility(C25_NoAdvisoryTriggers).value.issues
    /\ seo.status = "returned" =>
          /\ Len(seo.value.suggestions) =
                 Len(seo.value.issues)
                     + (IF C25_CanonicalFires THEN 1 ELSE 0)
                     + (IF C25_OpenGraphFires THEN 1 ELSE 0)
          /\ seo.value.score = analyzeSEO(C25_NoSocialTags).value.score
          /\ seo.value.score = analyzeSEO(C25_AllSocialTags).value.score
          /\ seo.value.issues = analyzeSEO(C25_AllSocialTags).value.issues

\* Both accessibility advisories fired beside three issues; both SEO
\* advisories fired on a page that has og:title and lacks og:description.
C25_Witness ==
    /\ accessibility.status = "returned"
    /\ C25_ColorFires
    /\ Len(accessibility.value.issues) = 3
    /\ Len(accessibility.value.suggestions) = 5
    /\ seo.status = "returned"
    /\ \E i \in 1..Len(doc.elements) : IsOgTitle(doc.elements[i])
    /\ C25_CanonicalFires /\ C25_OpenGraphFires
    /\ Len(seo.value.issues) = 3
    /\ Len(seo.value.suggestions) = 5

\* C26: a returned category result has score 100 iff it has no issue.
C26_PerfectIffNoIssue ==
    /\ accessibility.status = "returned" =>
          (accessibility.value.score = 100 <=> accessibility.value.issues = <<>>)
    /\ seo.status = "returned" => (seo.value.score = 100 <=> seo.value.issues = <<>>)
    /\ performance.status = "returned" =>
          (performance.value.score = 100 <=> performance.value.issues = <<>>)

\* The smallest deduction there is: one external link without rel, score 99;
\* beside an accessibility result with suggestions and no issue.
C26_Witness ==
    /\ performance.status = "returned"
    /\ performance.value.score = 99
    /\ Len(performance.value.issues) = 1
    /\ accessibility.status = "returned"
    /\ accessibility.value.score = 100
    /\ accessibility.value.suggestions # <<>>
    /\ seo.status = "returned" /\ seo.value.score = 100

\* C27: a returned accessibility score is at least 45, an SEO score at least
\* 35, a performance score at least 40 and an overall score at least 40, so
\* that Math.max(0, score) never changes the score.
C27_FloorNeverActive ==
    /\ accessibility.status = "returned" => accessibility.value.score >= 45
    /\ seo.status = "returned" => seo.value.score >= 35
    /\ performance.status = "returned" => performance.value.score >= 40
    /\ analysis.status = "returned" =>
          /\ analysis.value.score >= 40
          /\ analysis.value.categories.accessibility.score >= 45
          /\ analysis.value.categories.seo.score >= 35
          /\ analysis.value.categories.performance.score >= 40

\* One page attains the four bounds at once.
C27_Witness ==
    /\ accessibility.status = "returned" /\ accessibility.value.score = 45
    /\ seo.status = "returned" /\ seo.value.score = 35
    /\ performance.status = "returned" /\ performance.value.score = 40
    /\ analysis.status = "returned" /\ analysis.value.score = 40

\* The latest runAnalysis, and the latest one chrome.tabs.sendMessage answered
LastRun == runs[Len(runs)]
Answered == {i \in 1..Len(runs) : runs[i].response # Absent}
LastAnswered == CHOOSE i \in Answered : \A j \in Answered : j <= i

\* C28: when the export button is enabled, currentAnalysis is a result (not
\* null, not undefined), the most recent runAnalysis has ended, succeeded, and
\* currentAnalysis is the response it got; so the button is disabled while a
\* runAnalysis is in flight and after one that did not succeed.
C28_ExportOnlyAfterSuccess ==
    /\ ~popup.exportDisabled =>
          /\ runs # <<>>
          /\ LastRun.pc = "done"
          /\ LastRun.outcome = "succeeded"
          /\ popup.currentAnalysis.kind = "result"
          /\ LastRun.response = Present(popup.currentAnalysis)
    /\ \A i \in 1..Len(runs) :
          (runs[i].pc # "done" \/ (i = Len(runs) /\ runs[i].outcome # "succeeded")) =>
              popup.exportDisabled

\* A success, then an analysis that found a tab with no id: the earlier result
\* is still held and the export button is disabled.
C28_Witness ==
    /\ Len(runs) = 2
    /\ runs[1].outcome = "succeeded"
    /\ runs[2].pc = "done"
    /\ runs[2].outcome = "skipped"
    /\ popup.currentAnalysis = buildResult(85)
    /\ popup.exportDisabled

\* C29: a runAnalysis that has not reached its finally block is the latest one
\* started and the analyze button is disabled while it waits for the tab query
\* or for the response; so no two are in flight together, and currentAnalysis
\* holds the response of the latest analysis that got one.
C29_OneInFlight ==
    /\ \A i \in 1..Len(runs) :
          runs[i].pc # "done" => (i = Len(runs) /\ popup.analyzeDisabled)
    /\ IF Answered = {}
       THEN popup.currentAnalysis = NullAnalysis
       ELSE Present(popup.currentAnalysis) = runs[LastAnswered].response

\* Two analyses answered with different results, a third waiting for its
\* response: the second result is held.
C29_Witness ==
    /\ Len(runs) = 3
    /\ runs[1].response = Present(buildResult(85))
    /\ runs[2].response = Present(buildResult(77))
    /\ runs[3].pc = "send"
    /\ popup.analyzeDisabled
    /\ popup.currentAnalysis = buildResult(77)

\* C30: once the latest runAnalysis has returned, the overview shows the
\* results or the error notice, never the loading indicator.
C30_NeverLeftLoading ==
    (runs # <<>> /\ LastRun.pc = "done") => popup.overview.kind \in {"results", "error"}

\* C21: every export serialised an object with the fields of the result it
\* was given, each with its value, and exportedAt besides, an ISO-8601 string
\* (the instant first read); the text saved parses back to those fields; the
\* result given is afterwards what the analysis returned; the file is named
\* quality-analysis-YYYY-MM-DD.json after the date of the instant last read;
\* and the document holds no anchor with a download attribute.
C21_IsIso8601(s) ==
    /\ Len(s) = 24
    /\ \A i \in 1..24 :
          CASE i \in {5, 8} -> s[i] = "-"
            [] i = 11 -> s[i] = "T"
            [] i \in {14, 17} -> s[i] = ":"
            [] i = 20 -> s[i] = "."
            [] i = 24 -> s[i] = "Z"
            [] OTHER -> \E d \in 1..10 : s[i] = Digits[d]
C21_IsoDate(date) ==
    Pad(date.year, 4) \o <<"-">> \o Pad(date.month, 2) \o <<"-">> \o Pad(date.day, 2)
C21_ExportAddsExportedAt ==
    /\ \A k \in 1..Len(popup.downloads) :
          LET d == popup.downloads[k]
              parsed == JSONParse(d.blob.text)
          IN  /\ "exportedAt" \notin DOMAIN d.argument
              /\ DOMAIN d.data = DOMAIN d.argument \cup {"exportedAt"}
              /\ \A f \in DOMAIN d.argument : d.data[f] = d.argument[f]
              /\ C21_IsIso8601(d.data.exportedAt)
              /\ SubSeq(d.data.exportedAt, 1, 10) = C21_IsoDate(d.read[1])
              /\ DOMAIN parsed = {"score", "pageInfo", "categories", "exportedAt"}
              /\ \A f \in {"score", "pageInfo", "categories"} : parsed[f] = d.argument[f]
              /\ parsed.exportedAt = d.data.exportedAt
              /\ Present(d.argument) = runs[1].response
              /\ popup.currentAnalysis = d.argument
              /\ d.download = QualityAnalysisDash \o C21_IsoDate(d.read[2]) \o DotJson
    /\ \A i \in 1..Len(popup.body) : popup.body[i].download = Absent

\* A result of score 77 exported across midnight from a popup whose document
\* has an anchor of its own: exportedAt is of the 4th, the file of the 5th.
C21_Witness ==
    /\ Len(popup.downloads) = 1
    /\ popup.downloads[1].argument.score = 77
    /\ popup.downloads[1].read = <<Instants[1], Instants[2]>>
    /\ popup.downloads[1].download =
          QualityAnalysisDash
              \o <<"2", "0", "2", "6", "-", "1", "1", "-", "0", "5">> \o DotJson
    /\ popup.body = <<HelpLink>>

\* C22: the background of every score card shown is one of the four tiers,
\* decided by its score alone: excellent from 90, good from 80 to 89, fair
\* from 60 to 79, poor below 60; the four differ, and no score below the one
\* shown gets a higher tier.
C22_Rank(color) ==
    CASE color = Poor -> 1 [] color = Fair -> 2 [] color = Good -> 3 [] color = Excellent -> 4
C22_IsTierOf(color, score) ==
    /\ color \in {Excellent, Good, Fair, Poor}
    /\ color = Excellent <=> score >= 90
    /\ color = Good <=> (80 <= score /\ score < 90)
    /\ color = Fair <=> (60 <= score /\ score < 80)
    /\ color = Poor <=> score < 60
    /\ \A lower \in 0..score : C22_Rank(getScoreColor(lower)) <= C22_Rank(color)
C22_ScoreTiers ==
    /\ Cardinality({Excellent, Good, Fair, Poor}) = 4
    /\ popup.scoreCards.overview # Absent =>
          /\ C22_IsTierOf(popup.scoreCards.overview[1], popup.currentAnalysis.score)
          /\ \A c \in {"accessibility", "seo", "performance"} :
                popup.scoreCards[c] # Absent =>
                    C22_IsTierOf(popup.scoreCards[c][1],
                                 popup.currentAnalysis.categories[c].score)

\* A result of score 89 is shown: good, one point below excellent.
C22_Witness ==
    /\ popup.overview.kind = "results"
    /\ popup.currentAnalysis.score = 89
    /\ popup.scoreCards.overview = Present(Good)
    /\ popup.scoreCards.seo = Present(Good)

\* C23: once switchTab has been called, with the names of existing tabs, one
\* tab button and one panel carry 'active': those of the last call's name.
C23_OneActiveTab ==
    popup.switched # <<>> =>
        /\ Cardinality(popup.activeTabs) = 1
        /\ Cardinality(popup.activePanels) = 1
        /\ popup.activeTabs = {popup.switched[Len(popup.switched)]}
        /\ popup.activePanels = {popup.switched[Len(popup.switched)]}

\* From the overview to the SEO tab and then to the performance tab.
C23_Witness ==
    /\ popup.switched = <<"seo", "performance">>
    /\ popup.activeTabs = {"performance"}
    /\ popup.activePanels = {"performance"}

====
